---- MODULE Spec2Model ----
(***************************************************************************)
(* Model of the security layer of the weather aggregator API: the IP ban   *)
(* manager (ban table, suspicion table, scoring, lazy expiry, sweep) and   *)
(* the synchronous part of the request pipeline of the server (ban check,  *)
(* pattern analysis, user-agent checks, attack detection).                 *)
(*                                                                         *)
(* Time is counted in minutes: every duration of the code is a whole       *)
(* number of minutes (60000 ms).  A JavaScript Map is a function whose     *)
(* DOMAIN is the set of keys.  null is the empty tuple <<>> and a non-null *)
(* timestamp t is <<t>>.                                                   *)
(***************************************************************************)
EXTENDS Integers, Sequences, FiniteSets, Bags, TLC

VARIABLES
    bannedIPs,        \* IPBanManager.bannedIPs: ip -> ban record
    suspiciousIPs,    \* IPBanManager.suspiciousIPs: ip -> suspicion record
    requestPatterns,  \* pattern analysis: ip -> the requests of the window
    now,              \* the clock, in minutes
    lastOp,           \* the last operation and what it returned
    response,         \* what the pipeline did with the last request
    rateWindows,      \* rate limiters: <<limiter, ip>> -> the window of the client
    storage,          \* data/banned-ips.json: <<>> while missing, else <<text>>
    disk,             \* "ok", or "failing" while fs.writeFile rejects
    booting,          \* TRUE until loadBannedIPs has finished
    raised,           \* the last operation threw or rejected to its caller
    timeline,         \* SecurityAnalytics.timeline: the events, oldest first
    metrics,          \* SecurityAnalytics.metrics: the counters and the samples
    lastIndex,        \* the lastIndex of each pattern of ATTACK_PATTERNS
    inFlight,         \* the requests whose violation is still to be recorded, and
                      \* the calls recorded since the last ban
    halfMinutes,      \* the half minutes of the clock past now: 0 or 1
    sweeping,         \* cleanExpiredBans: where the sweep is, and what it has done
    writes            \* the texts of the fs.writeFile calls still in flight

vars == <<bannedIPs, suspiciousIPs, requestPatterns, now, lastOp, response,
          rateWindows, storage, disk, booting, raised, timeline, metrics,
          lastIndex, inFlight, halfMinutes, sweeping, writes>>

\* ------------------------------------------------------------------ bounds

\* The clock stops advancing once it has reached MaxNow minutes.
MaxNow == 120

\* One step of the clock, in minutes.
TickMinutes == 60

\* Pattern analysis takes no request of a client whose window holds MaxPattern.
MaxPattern == 2

\* A rate limiter takes no request of a client whose window has counted MaxHits.
MaxHits == 121

\* The most recordSuspiciousActivity calls made on one suspicion record in the
\* specification of the weights.
MaxCalls == 6

\* The most requests recorded in the specification of the timeline; it is
\* past the cap of the timeline.
MaxAdds == 502

\* The number of recorded requests up to which the events of the timeline
\* are of every kind; after them they are normal requests.
MaxEarly == 1

\* The most events in the timeline in the specification of getRecentEvents.
MaxEvents == 3

\* The specification of the retention: the step of its clock, in minutes, the
\* last time of the clock (past 24 hours and one sweep period), and the most
\* events in the timeline.
RetentionStep == 20

MaxRetentionNow == 1500

MaxKept == 2

\* The most requests the analytics count in the specification of the finished
\* requests.
MaxTotal == 2

\* The specification of the scans: the last time of its clock, in half
\* minutes, and the most requests in the list of a client.
MaxHalfMinutes == 5

MaxScan == 21

\* The most requests of a client in flight with a violation to record.
MaxInFlight == 2

\* The specification of the response times: the most calls of
\* recordResponseTime, past the cap of the samples, and the number of first
\* calls whose sample is of either value.
MaxSamples == 1002

MaxEarlySamples == 1

\* The last time, in half minutes, of the clock of the specification of the
\* sweep of pattern analysis: past two periods of the sweep.
MaxSweepClock == 21

\* The last time, in minutes, of the clock of the specification of the
\* adaptive limiter: past its window.
MaxAdaptiveNow == 20

\* The most requests of a client that the normal limiter and the strict
\* limiter of the adaptive limiter count in one window.
MaxNormalHits == 105

MaxSuspectHits == 21

\* The most writes of the ban table in flight.
MaxWrites == 2

\* The most violations on one suspicion record in the specifications of the
\* sweep and of the user-agent check.
MaxSweepCalls == 2

\* ------------------------------------------------------- program constants

BAN_THRESHOLD_SCORE == 300

BAN_THRESHOLD_ATTEMPTS == 20

\* Duration, in minutes, of the automatic ban.
AUTO_BAN_MINUTES == 60

\* Idle time, in minutes, after which the sweep drops a suspicion record.
SUSPICION_IDLE_MINUTES == 60

DEFAULT_SCORE == 15

\* Pattern analysis: the window, in minutes, and its thresholds.
PATTERN_WINDOW_MINUTES == 1

ABNORMAL_REQUESTS == 30

SCAN_PATHS == 10

SCAN_REQUESTS == 20

\* The period, in minutes, of the sweep of pattern analysis, which is also the
\* age of lastClean past which it drops an entry.
PATTERN_SWEEP_MINUTES == 5

\* The rate limiters: window, in minutes, and max of each.
MODERATE_WINDOW_MINUTES == 15

MODERATE_MAX == 100

STRICT_WINDOW_MINUTES == 60

STRICT_MAX == 20

\* Duration, in minutes, of the ban of the strict limiter.
STRICT_BAN_MINUTES == 120

DASHBOARD_WINDOW_MINUTES == 15

\* The adaptive limiter: the window, in minutes, of both of its limiters, the
\* max of each, the duration of the ban of its strict one, and the score and
\* attempts from which a client is held to the strict one.
ADAPTIVE_WINDOW_MINUTES == 15

NORMAL_MAX == 100

SUSPECT_MAX == 20

SUSPECT_BAN_MINUTES == 120

SUSPECT_SCORE == 50

SUSPECT_ATTEMPTS == 5

\* The most events the timeline keeps.
TIMELINE_CAP == 500

\* The age, in minutes, at which the sweep of the timeline drops an event.
RETENTION_MINUTES == 1440

\* The period, in minutes, of the sweep of the timeline.
TIMELINE_SWEEP_MINUTES == 60

\* The most response times kept.
SAMPLES_CAP == 1000

DASHBOARD_MAX == 300

\* ------------------------------------------------------------------ inputs

IPs == {"1.2.3.4", "9.9.9.9"}

\* Durations, in minutes, given to a manual banIP (0 = permanent).
Durations == {0, 60}

ManualReason == <<"manual">>

\* ------------------------------------------------------------ Map helpers

MapSet(m, k, v) == [x \in (DOMAIN m) \cup {k} |-> IF x = k THEN v ELSE m[x]]

MapDelete(m, k) == [x \in (DOMAIN m) \ {k} |-> m[x]]

EmptyMap == [x \in {} |-> 0]

\* --------------------------------------------------------- IPBanManager

\* Mutant of threatScore: a type the table does not list weighs nothing.
threatScore_unlisted(threatType) ==
    CASE threatType = "sql_injection" -> 50
      [] threatType = "xss" -> 40
      [] threatType = "path_traversal" -> 45
      [] threatType = "rate_limit" -> 10
      [] threatType = "invalid_input" -> 5
      [] threatType = "unknown" -> 15
      [] OTHER -> 0

\* The weight of a threat type: threatScores[threatType] || 15.
threatScore(threatType) ==
    CASE threatType = "sql_injection" -> 50
      [] threatType = "xss" -> 40
      [] threatType = "path_traversal" -> 45
      [] threatType = "rate_limit" -> 10
      [] threatType = "invalid_input" -> 5
      [] threatType = "unknown" -> 15
      [] OTHER -> DEFAULT_SCORE

\* expiresAt of a ban of `duration` minutes issued at time t.
banExpiresAt(duration, t) == IF duration > 0 THEN <<t + duration>> ELSE <<>>

\* Mutant of banExpired: a ban already expired at its expiry time (<= for <).
banExpired_inclusive(info, t) == info.expiresAt # <<>> /\ info.expiresAt[1] <= t

\* info.expiresAt && new Date(info.expiresAt) < now
banExpired(info, t) == info.expiresAt # <<>> /\ info.expiresAt[1] < t

\* Mutant of banIP: every client under suspicion is banned with ip.
banIP_allSuspects(st, ip, reason, duration, t) ==
    LET banInfo == [reason |-> reason,
                    bannedAt |-> t,
                    expiresAt |-> banExpiresAt(duration, t),
                    attempts |-> (IF ip \in DOMAIN st.s THEN st.s[ip].attempts ELSE 0) + 1]
    IN [b |-> [x \in (DOMAIN st.b) \cup (DOMAIN st.s) \cup {ip} |->
                 IF x = ip \/ x \in DOMAIN st.s THEN banInfo ELSE st.b[x]],
        s |-> EmptyMap]

\* The tables after banIP(ip, reason, duration) at time t.
banIP(st, ip, reason, duration, t) ==
    LET banInfo == [reason |-> reason,
                    bannedAt |-> t,
                    expiresAt |-> banExpiresAt(duration, t),
                    attempts |-> (IF ip \in DOMAIN st.s THEN st.s[ip].attempts ELSE 0) + 1]
    IN [b |-> MapSet(st.b, ip, banInfo), s |-> MapDelete(st.s, ip)]

\* The value unbanIP(ip) returns.
unbanIPResult(st, ip) == ip \in DOMAIN st.b

\* Mutant of unbanIP: the suspicion record is dropped as well, ban or no ban.
unbanIP_dropsSuspicion(st, ip) ==
    [b |-> MapDelete(st.b, ip), s |-> MapDelete(st.s, ip)]

\* The tables after unbanIP(ip).
unbanIP(st, ip) ==
    IF ip \in DOMAIN st.b THEN [st EXCEPT !.b = MapDelete(st.b, ip)] ELSE st

\* The value isBanned(ip) returns at time t.
isBannedResult(st, ip, t) ==
    IF ip \notin DOMAIN st.b THEN FALSE
    ELSE IF banExpired(st.b[ip], t) THEN FALSE
    ELSE TRUE

\* The tables after isBanned(ip) at time t (lazy expiry).
isBanned(st, ip, t) ==
    IF ip \in DOMAIN st.b /\ banExpired(st.b[ip], t) THEN unbanIP(st, ip) ELSE st

\* Mutant of suspiciousAfter: a record last touched before t starts again
\* from zero.
suspiciousAfter_restart(st, ip, threatType, t) ==
    LET old == IF ip \in DOMAIN st.s /\ ~(st.s[ip].lastAttempt < t) THEN st.s[ip]
               ELSE [attempts |-> 0, lastAttempt |-> t, score |-> 0, threats |-> EmptyBag]
    IN [attempts |-> old.attempts + 1,
        lastAttempt |-> t,
        score |-> old.score + threatScore(threatType),
        threats |-> old.threats (+) SetToBag({[type |-> threatType, timestamp |-> t]})]

\* The suspicion record of ip after the increments of recordSuspiciousActivity.
suspiciousAfter(st, ip, threatType, t) ==
    LET old == IF ip \in DOMAIN st.s THEN st.s[ip]
               ELSE [attempts |-> 0, lastAttempt |-> t, score |-> 0, threats |-> EmptyBag]
    IN [attempts |-> old.attempts + 1,
        lastAttempt |-> t,
        score |-> old.score + threatScore(threatType),
        threats |-> old.threats (+) SetToBag({[type |-> threatType, timestamp |-> t]})]

\* Mutant of shouldBan: the score threshold tested with > for >=.
shouldBan_strictScore(suspicious) ==
    \/ suspicious.score > BAN_THRESHOLD_SCORE
    \/ suspicious.attempts >= BAN_THRESHOLD_ATTEMPTS

\* Mutant of shouldBan: the attempts threshold is a quarter of what it is.
shouldBan_fewAttempts(suspicious) ==
    \/ suspicious.score >= BAN_THRESHOLD_SCORE
    \/ suspicious.attempts >= BAN_THRESHOLD_ATTEMPTS \div 4

\* Mutant of shouldBan: the attempts threshold tested with > for >=.
shouldBan_pastAttempts(suspicious) ==
    \/ suspicious.score >= BAN_THRESHOLD_SCORE
    \/ suspicious.attempts > BAN_THRESHOLD_ATTEMPTS

\* The threshold test of recordSuspiciousActivity.
shouldBan(suspicious) ==
    \/ suspicious.score >= BAN_THRESHOLD_SCORE
    \/ suspicious.attempts >= BAN_THRESHOLD_ATTEMPTS

AutomaticReason(suspicious) == <<"Automatic ban", suspicious.attempts, suspicious.score>>

\* The value recordSuspiciousActivity(ip, threatType) returns.
recordSuspiciousActivityResult(st, ip, threatType, t) ==
    shouldBan(suspiciousAfter(st, ip, threatType, t))

\* Mutant of recordSuspiciousActivity: the ban is left to the caller.
recordSuspiciousActivity_noBan(st, ip, threatType, t) ==
    [st EXCEPT !.s = MapSet(st.s, ip, suspiciousAfter(st, ip, threatType, t))]

\* The tables after recordSuspiciousActivity(ip, threatType) at time t.
recordSuspiciousActivity(st, ip, threatType, t) ==
    LET suspicious == suspiciousAfter(st, ip, threatType, t)
        st1 == [st EXCEPT !.s = MapSet(st.s, ip, suspicious)]
    IN IF shouldBan(suspicious)
       THEN banIP(st1, ip, AutomaticReason(suspicious), AUTO_BAN_MINUTES, t)
       ELSE st1

\* No request in flight, no call recorded.
NoneInFlight == [pending |-> EmptyBag, recorded |-> 0, weights |-> 0]

\* A request in flight that will record a violation: what it will pass to
\* recordSuspiciousActivity, and the suspicion table as it was when the
\* request arrived.
arrival(st, ip, threatType) == [ip |-> ip, type |-> threatType, seen |-> st.s]

\* Mutant of recordInFlight: the call works on the suspicion table the request
\* saw when it arrived.
recordInFlight_stale(st, entry, t) ==
    LET after == recordSuspiciousActivity([st EXCEPT !.s = entry.seen], entry.ip, entry.type, t)
    IN [b |-> after.b,
        s |-> IF entry.ip \in DOMAIN after.s
              THEN MapSet(st.s, entry.ip, after.s[entry.ip])
              ELSE MapDelete(st.s, entry.ip)]

\* The recordSuspiciousActivity call of a request in flight: a synchronous
\* method, which reads the tables as they are when it runs.
recordInFlight(st, entry, t) == recordSuspiciousActivity(st, entry.ip, entry.type, t)

\* Mutant of cleanExpiredBans: a null expiresAt counts as expired.
cleanExpiredBans_nullExpired(st, t) ==
    LET keptB == {ip \in DOMAIN st.b :
                     st.b[ip].expiresAt # <<>> /\ ~(st.b[ip].expiresAt[1] < t)}
        keptS == {ip \in DOMAIN st.s : ~(st.s[ip].lastAttempt < t - SUSPICION_IDLE_MINUTES)}
    IN [b |-> [ip \in keptB |-> st.b[ip]], s |-> [ip \in keptS |-> st.s[ip]]]

\* The tables after cleanExpiredBans at time t.
cleanExpiredBans(st, t) ==
    LET keptB == {ip \in DOMAIN st.b : ~banExpired(st.b[ip], t)}
        keptS == {ip \in DOMAIN st.s : ~(st.s[ip].lastAttempt < t - SUSPICION_IDLE_MINUTES)}
    IN [b |-> [ip \in keptB |-> st.b[ip]], s |-> [ip \in keptS |-> st.s[ip]]]

\* The number of bans the first loop of cleanExpiredBans deletes at time t.
cleaned(st, t) == Cardinality({ip \in DOMAIN st.b : banExpired(st.b[ip], t)})

\* The first loop of cleanExpiredBans, run at time t: the expired bans are
\* deleted.
cleanBans(st, t) ==
    [st EXCEPT !.b = [ip \in {x \in DOMAIN st.b : ~banExpired(st.b[x], t)} |-> st.b[ip]]]

\* Mutant of cleanSuspicions: a record is dropped when its last attempt is one
\* hour old (<= for <).
cleanSuspicions_inclusive(st, t) ==
    [st EXCEPT !.s = [ip \in {x \in DOMAIN st.s :
                                 ~(st.s[x].lastAttempt <= t - SUSPICION_IDLE_MINUTES)} |-> st.s[ip]]]

\* The second loop of cleanExpiredBans, run at time t, which is the time
\* after the await of saveBannedIPs when a ban has been deleted: oneHourAgo
\* is read from the clock then.
cleanSuspicions(st, t) ==
    [st EXCEPT !.s = [ip \in {x \in DOMAIN st.s :
                                 ~(st.s[x].lastAttempt < t - SUSPICION_IDLE_MINUTES)} |-> st.s[ip]]]

\* cleanExpiredBans is not running and has not run.
NotSweeping ==
    [pc |-> "idle", at |-> 0, removed |-> 0,
     before |-> [b |-> EmptyMap, s |-> EmptyMap],
     kept |-> [b |-> EmptyMap, s |-> EmptyMap],
     resumed |-> [b |-> EmptyMap, s |-> EmptyMap]]

getAllBanned(st) == DOMAIN st.b

\* ---------------------------------------------------------- detectThreats

\* ATTACK_PATTERNS, in the order of Object.entries: each category with its
\* patterns, a pattern being named by its category and its rank.
ATTACK_PATTERNS ==
    << [type |-> "sql_injection", patterns |-> <<"sql1", "sql2", "sql3", "sql4", "sql5">>],
       [type |-> "xss", patterns |-> <<"xss1", "xss2", "xss3", "xss4", "xss5">>],
       [type |-> "path_traversal", patterns |-> <<"path1", "path2", "path3">>],
       [type |-> "command_injection", patterns |-> <<"cmd1", "cmd2">>],
       [type |-> "ldap_injection", patterns |-> <<"ldap1", "ldap2">>] >>

\* The request values the model sends.
CityInput == "Paris"

SqlInput == "1' OR '1'='1"

XssInput == "<script>alert(1)</script>"

\* Other values of a request.
TraversalInput == "../../etc/passwd"

CommandInput == "Paris; ls"

UnionInput == "1 UNION SELECT 1"

\* A value with something of every category in it.
MixedInput == "' OR 1=1; <script>x</script> ../*"

\* Where each pattern matches in each input: <<pattern, input, start, end>>
\* for every position start of the input at which the pattern matches, end
\* being the position after the match (positions count from 0).
RegexSpans ==
    { <<"sql1", UnionInput, 2, 7>>, <<"sql1", UnionInput, 8, 14>>, <<"sql2", CommandInput, 5, 6>>,
      <<"sql2", MixedInput, 8, 9>>, <<"sql2", MixedInput, 31, 33>>, <<"sql3", SqlInput, 1, 2>>,
      <<"sql3", SqlInput, 6, 7>>, <<"sql3", SqlInput, 8, 9>>, <<"sql3", SqlInput, 10, 11>>,
      <<"sql3", MixedInput, 0, 1>>, <<"sql4", SqlInput, 3, 12>>, <<"sql4", MixedInput, 2, 33>>,
      <<"xss1", XssInput, 0, 25>>, <<"xss1", MixedInput, 10, 28>>, <<"path1", TraversalInput, 0, 3>>,
      <<"path1", TraversalInput, 3, 6>>, <<"path1", MixedInput, 29, 32>>, <<"cmd1", XssInput, 13, 14>>,
      <<"cmd1", XssInput, 15, 16>>, <<"cmd1", CommandInput, 5, 6>>, <<"cmd1", MixedInput, 8, 9>>,
      <<"cmd2", XssInput, 0, 1>>, <<"cmd2", XssInput, 7, 8>>, <<"cmd2", XssInput, 16, 17>>,
      <<"cmd2", XssInput, 24, 25>>, <<"cmd2", CommandInput, 5, 6>>, <<"cmd2", MixedInput, 8, 9>>,
      <<"cmd2", MixedInput, 10, 11>>, <<"cmd2", MixedInput, 17, 18>>, <<"cmd2", MixedInput, 19, 20>>,
      <<"cmd2", MixedInput, 27, 28>>, <<"ldap1", XssInput, 13, 14>>, <<"ldap1", XssInput, 15, 16>>,
      <<"ldap1", MixedInput, 32, 33>>, <<"ldap2", XssInput, 13, 14>>, <<"ldap2", XssInput, 15, 16>>,
      <<"ldap2", MixedInput, 32, 33>> }

\* The pairs on which pattern.test(input) succeeds when the lastIndex of the
\* pattern is 0: the quote and the OR ... = of SqlInput match sql3 and sql4;
\* the script element of XssInput matches xss1 and its parentheses and angle
\* brackets match cmd1, cmd2, ldap1 and ldap2.
RegexMatches == {<<m[1], m[2]>> : m \in RegexSpans}

RegexTest(pattern, input) == <<pattern, input>> \in RegexMatches

\* The threats of one category: the first pattern that matches, if any.
categoryThreats(category, input, paramName) ==
    LET hits == {k \in 1..Len(category.patterns) : RegexTest(category.patterns[k], input)}
    IN IF hits = {} THEN <<>>
       ELSE LET first == CHOOSE k \in hits : \A j \in hits : k <= j
            IN << [type |-> category.type, pattern |-> category.patterns[first],
                   paramName |-> paramName] >>

RECURSIVE detectFrom(_, _, _)
detectFrom(i, input, paramName) ==
    IF i > Len(ATTACK_PATTERNS) THEN <<>>
    ELSE categoryThreats(ATTACK_PATTERNS[i], input, paramName)
             \o detectFrom(i + 1, input, paramName)

\* detectThreats(input, paramName).threats, for a value [isString, text].
detectThreats(value, paramName) ==
    IF ~value.isString \/ value.text = "" THEN <<>>
    ELSE detectFrom(1, value.text, paramName)

PatternNames ==
    UNION {{ATTACK_PATTERNS[i].patterns[k] : k \in 1..Len(ATTACK_PATTERNS[i].patterns)} :
           i \in 1..Len(ATTACK_PATTERNS)}

\* The lastIndex of the patterns when the module is loaded.
ZeroIndex == [pattern \in PatternNames |-> 0]

\* pattern.exec(input) of a global pattern whose lastIndex is from: the
\* leftmost match that starts at from or later, <<>> when there is none.
exec(pattern, input, from) ==
    LET later == {m \in RegexSpans : m[1] = pattern /\ m[2] = input /\ m[3] >= from}
    IN IF later = {} THEN <<>>
       ELSE <<CHOOSE m \in later : \A other \in later : m[3] <= other[3]>>

\* pattern.test(input) with the lastIndex values li: the search starts at the
\* lastIndex of the pattern, which becomes the end of the match, or 0 when
\* there is no match.
test(li, pattern, input) ==
    LET found == exec(pattern, input, li[pattern])
    IN [found |-> found # <<>>,
        li |-> [li EXCEPT ![pattern] = IF found = <<>> THEN 0 ELSE found[1][4]]]

\* Mutant of match: the lastIndex of the pattern is left where test put it.
match_keepsIndex(li, pattern, input) ==
    [first |-> exec(pattern, input, 0), li |-> li]

\* input.match(pattern)?.[0] of a global pattern: lastIndex is set to 0, all
\* the matches are collected, and the failing exec that ends the collection
\* sets lastIndex to 0 again; first is the first match from position 0.
match(li, pattern, input) ==
    [first |-> exec(pattern, input, 0), li |-> [li EXCEPT ![pattern] = 0]]

\* Mutant of testPatterns: no break, every matching pattern of the category
\* gives a threat.
RECURSIVE testPatterns_noBreak(_, _, _, _, _)
testPatterns_noBreak(li, category, k, input, paramName) ==
    IF k > Len(category.patterns) THEN [threats |-> <<>>, li |-> li]
    ELSE LET tested == test(li, category.patterns[k], input)
         IN IF tested.found
            THEN LET matched == match(tested.li, category.patterns[k], input)
                     rest == testPatterns_noBreak(matched.li, category, k + 1, input, paramName)
                 IN [threats |-> << [type |-> category.type,
                                     pattern |-> category.patterns[k],
                                     paramName |-> paramName,
                                     match |-> matched.first] >> \o rest.threats,
                     li |-> rest.li]
            ELSE testPatterns_noBreak(tested.li, category, k + 1, input, paramName)

\* The inner loop of detectThreats over the patterns of one category, from
\* pattern k on: the first pattern whose test succeeds gives the threat of the
\* category and ends the loop.
RECURSIVE testPatterns(_, _, _, _, _)
testPatterns(li, category, k, input, paramName) ==
    IF k > Len(category.patterns) THEN [threats |-> <<>>, li |-> li]
    ELSE LET tested == test(li, category.patterns[k], input)
         IN IF tested.found
            THEN LET matched == match(tested.li, category.patterns[k], input)
                 IN [threats |-> << [type |-> category.type,
                                     pattern |-> category.patterns[k],
                                     paramName |-> paramName,
                                     match |-> matched.first] >>,
                     li |-> matched.li]
            ELSE testPatterns(tested.li, category, k + 1, input, paramName)

\* The outer loop of detectThreats, from category i on.
RECURSIVE testCategories(_, _, _, _)
testCategories(li, i, input, paramName) ==
    IF i > Len(ATTACK_PATTERNS) THEN [threats |-> <<>>, li |-> li]
    ELSE LET one == testPatterns(li, ATTACK_PATTERNS[i], 1, input, paramName)
             rest == testCategories(one.li, i + 1, input, paramName)
         IN [threats |-> one.threats \o rest.threats, li |-> rest.li]

\* One call detectThreats(input, paramName) on the shared patterns, whose
\* lastIndex values are li before the call: the threats it returns and the
\* lastIndex values it leaves.
detectThreatsCall(li, value, paramName) ==
    IF ~value.isString \/ value.text = "" THEN [threats |-> <<>>, li |-> li]
    ELSE testCategories(li, 1, value.text, paramName)

\* ------------------------------------------------------ request pipeline

\* A path is the sequence of its segments.
StartsWith(path, prefix) ==
    Len(prefix) <= Len(path) /\ SubSeq(path, 1, Len(prefix)) = prefix

\* path.startsWith(dir + '/')
StartsWithDir(path, dir) == Len(dir) < Len(path) /\ SubSeq(path, 1, Len(dir)) = dir

dashboardEndpoints ==
    { <<"api", "security", "stats">>, <<"api", "security", "events">>,
      <<"api", "security", "banned-ips">>, <<"api", "security", "suspicious-ips">> }

\* The paths on which the server skips the ban check.
whitelistedPath(path) ==
    \/ StartsWithDir(path, <<"api", "security", "unban">>)
    \/ \E prefix \in dashboardEndpoints : StartsWith(path, prefix)

StaticFiles == {"style.css", "script.js", "logo.png", "photo.jpg", "favicon.ico"}

\* req.path.match(/\.(css|js|png|jpg|ico)$/)
isStaticFile(path) == Len(path) > 0 /\ path[Len(path)] \in StaticFiles

\* The words of suspiciousPatterns and the user agents they match.
suspiciousPatterns ==
    <<"sqlmap", "nikto", "nmap", "masscan", "burp", "metasploit", "havij", "acunetix">>

ToolMatches == { <<"sqlmap", "sqlmap/1.7">> }

\* A context: the tables, the response status (0 while none is sent), the
\* stages that ran and the recordSuspiciousActivity calls they made.
callRecord(ctx, stage, ip, threatType, t) ==
    LET st == [b |-> ctx.b, s |-> ctx.s]
        st2 == recordSuspiciousActivity(st, ip, threatType, t)
    IN [ctx EXCEPT !.b = st2.b, !.s = st2.s,
                   !.calls = Append(@, [stage |-> stage, type |-> threatType,
                                        ret |-> recordSuspiciousActivityResult(st, ip, threatType, t)])]

enter(ctx, stage) == [ctx EXCEPT !.stages = Append(@, stage)]

\* Mutant of banCheckMiddleware: only a permanent ban is rejected.
banCheckMiddleware_permanentOnly(ctx, req, t) ==
    LET st == [b |-> ctx.b, s |-> ctx.s]
        st2 == isBanned(st, req.ip, t)
        c == [ctx EXCEPT !.b = st2.b, !.s = st2.s]
    IN IF isBannedResult(st, req.ip, t) /\ st.b[req.ip].expiresAt = <<>>
       THEN [c EXCEPT !.status = 403]
       ELSE c

\* banCheckMiddleware: 403 when isBanned(ip), next() otherwise.
banCheckMiddleware(ctx, req, t) ==
    LET st == [b |-> ctx.b, s |-> ctx.s]
        st2 == isBanned(st, req.ip, t)
        c == [ctx EXCEPT !.b = st2.b, !.s = st2.s]
    IN IF isBannedResult(st, req.ip, t) THEN [c EXCEPT !.status = 403] ELSE c

\* The ban check of the server, with its whitelist.
ipBanCheck(ctx, req, t) ==
    LET c == enter(ctx, "banCheck")
    IN IF whitelistedPath(req.path) THEN c ELSE banCheckMiddleware(c, req, t)

\* The entry of the client after the push and the cleaning of the window, at
\* time t counted in units of which `unit` make a minute.
patternAfterIn(p, req, t, unit) ==
    LET old == IF req.ip \in DOMAIN p THEN p[req.ip] ELSE [requests |-> <<>>, lastClean |-> t]
        pushed == Append(old.requests, [timestamp |-> t, path |-> req.path, method |-> req.method])
        window == PATTERN_WINDOW_MINUTES * unit
    IN IF t - old.lastClean > window
       THEN [requests |-> SelectSeq(pushed, LAMBDA r : t - r.timestamp < window),
             lastClean |-> t]
       ELSE [requests |-> pushed, lastClean |-> old.lastClean]

\* The same at a time t in minutes.
patternAfter(p, req, t) == patternAfterIn(p, req, t, 1)

\* patternAnalysisMiddleware at time t, counted in units of which `unit` make
\* a minute; the ban manager is called with the minutes.
patternAnalysis(ctx, req, t, unit) ==
    LET c0 == enter(ctx, "patternAnalysis")
    IN IF isStaticFile(req.path) \/ \E e \in dashboardEndpoints : StartsWith(req.path, e)
       THEN c0
       ELSE LET pattern == patternAfterIn(c0.p, req, t, unit)
                c1 == [c0 EXCEPT !.p = MapSet(c0.p, req.ip, pattern)]
                requestsLastMinute == Len(pattern.requests)
                uniquePaths == {pattern.requests[i].path : i \in 1..Len(pattern.requests)}
                c2 == IF requestsLastMinute > ABNORMAL_REQUESTS
                      THEN callRecord(c1, "patternAnalysis", req.ip, "rate_limit", t \div unit)
                      ELSE c1
            IN IF Cardinality(uniquePaths) > SCAN_PATHS /\ requestsLastMinute > SCAN_REQUESTS
               THEN callRecord(c2, "patternAnalysis", req.ip, "path_traversal", t \div unit)
               ELSE c2

\* A sweep that drops an entry as soon as its lastClean is older than the
\* window of the analysis.
sweepPatterns_pastWindow(p, t, unit) ==
    [ip \in {x \in DOMAIN p :
                ~(Len(p[x].requests) = 0 \/ t - p[x].lastClean > PATTERN_WINDOW_MINUTES * unit)}
        |-> p[ip]]

\* The callback of the sweep timer of pattern analysis at time t, counted in
\* units of which `unit` make a minute: an entry goes when its list is empty
\* or its lastClean is more than five minutes old.
sweepPatterns(p, t, unit) ==
    [ip \in {x \in DOMAIN p :
                ~(Len(p[x].requests) = 0 \/ t - p[x].lastClean > PATTERN_SWEEP_MINUTES * unit)}
        |-> p[ip]]

\* patternAnalysisMiddleware at a time t in minutes.
patternAnalysisMiddleware(ctx, req, t) == patternAnalysis(ctx, req, t, 1)

\* The first segments that begin with the text "health".
HealthSegments == {"health", "healthz"}

\* req.path.startsWith('/health'): a test on the text of the path, which a
\* first segment that only begins with "health" passes as well.
startsWithHealth(path) == Len(path) > 0 /\ path[1] \in HealthSegments

\* Mutant of noUserAgent: only an absent header counts.
noUserAgent_absentOnly(userAgent) == userAgent = <<>>

\* !userAgent || userAgent.trim() === ''
noUserAgent(userAgent) == userAgent = <<>> \/ userAgent[1] \in {"", " "}

noUserAgentMiddleware(ctx, req, t) ==
    LET c0 == enter(ctx, "noUserAgent")
    IN IF startsWithHealth(req.path) \/ StartsWith(req.path, <<"api", "security">>)
       THEN c0
       ELSE IF noUserAgent(req.userAgent)
            THEN [callRecord(c0, "noUserAgent", req.ip, "no_user_agent", t) EXCEPT !.status = 400]
            ELSE c0

suspiciousUserAgentMiddleware(ctx, req, t) ==
    LET c0 == enter(ctx, "suspiciousUserAgent")
    IN IF req.userAgent = <<>> \/ req.userAgent[1] = ""
       THEN c0
       ELSE IF \E k \in 1..Len(suspiciousPatterns) :
                    <<suspiciousPatterns[k], req.userAgent[1]>> \in ToolMatches
            THEN callRecord(c0, "suspiciousUserAgent", req.ip, "suspicious_tool", t)
            ELSE c0

RECURSIVE threatsOf(_, _)
\* The threats of the string values of a list of [key, value] entries.
threatsOf(entries, prefix) ==
    IF entries = <<>> THEN <<>>
    ELSE detectThreats(Head(entries).value, <<prefix, Head(entries).key>>)
             \o threatsOf(Tail(entries), prefix)

\* Mutant of attackDetectionMiddleware: the body is analysed before the query.
attackDetectionMiddleware_bodyFirst(ctx, req, t) ==
    LET c0 == enter(ctx, "attackDetection")
        threatsFound == threatsOf(req.body, "body") \o threatsOf(req.query, "query")
    IN IF Len(threatsFound) > 0
       THEN LET primaryThreat == threatsFound[1].type
                c1 == callRecord(c0, "attackDetection", req.ip, primaryThreat, t)
                shouldBanNow == c1.calls[Len(c1.calls)].ret
            IN [c1 EXCEPT !.status = IF shouldBanNow THEN 403 ELSE 400]
       ELSE c0

attackDetectionMiddleware(ctx, req, t) ==
    LET c0 == enter(ctx, "attackDetection")
        threatsFound == threatsOf(req.query, "query") \o threatsOf(req.body, "body")
    IN IF Len(threatsFound) > 0
       THEN LET primaryThreat == threatsFound[1].type
                c1 == callRecord(c0, "attackDetection", req.ip, primaryThreat, t)
                shouldBanNow == c1.calls[Len(c1.calls)].ret
            IN [c1 EXCEPT !.status = IF shouldBanNow THEN 403 ELSE 400]
       ELSE c0

\* ---------------------------------------------------------- rate limiters

\* The store of a limiter after a request of `key`: the count of the window
\* goes up by one, a window that has elapsed being replaced by a new one
\* that starts now.
rateWindowHit(w, key, windowMinutes, t) ==
    LET old == IF key \in DOMAIN w /\ t - w[key].windowStart < windowMinutes
               THEN w[key]
               ELSE [windowStart |-> t, count |-> 0]
    IN MapSet(w, key, [old EXCEPT !.count = @ + 1])

\* Mutant of moderateLimiter: the handler answers 429 and records nothing.
moderateLimiter_noRecord(ctx, req, t) ==
    LET c0 == enter(ctx, "moderateLimiter")
        key == <<"moderate", req.ip>>
        c1 == [c0 EXCEPT !.w = rateWindowHit(c0.w, key, MODERATE_WINDOW_MINUTES, t)]
    IN IF c1.w[key].count > MODERATE_MAX THEN [c1 EXCEPT !.status = 429] ELSE c1

\* Mutant of passedOn: the limiters run for every request, answered or not.
passedOn_always(resp) == resp.stages # <<>>

\* The limiters are mounted after the stages of the security middleware: a
\* request reaches them when every stage before them has called next().
passedOn(resp) ==
    /\ resp.status = 0
    /\ resp.stages # <<>>
    /\ resp.stages[Len(resp.stages)] = "next"

\* moderateLimiter: past max, the handler records a 'rate_limit' suspicious
\* activity and answers 429.
moderateLimiter(ctx, req, t) ==
    LET c0 == enter(ctx, "moderateLimiter")
        key == <<"moderate", req.ip>>
        c1 == [c0 EXCEPT !.w = rateWindowHit(c0.w, key, MODERATE_WINDOW_MINUTES, t)]
    IN IF c1.w[key].count > MODERATE_MAX
       THEN [callRecord(c1, "moderateLimiter", req.ip, "rate_limit", t) EXCEPT !.status = 429]
       ELSE c1

\* dashboardLimiter: past max, the default handler answers 429.
dashboardLimiter(ctx, req, t) ==
    LET c0 == enter(ctx, "dashboardLimiter")
        key == <<"dashboard", req.ip>>
        c1 == [c0 EXCEPT !.w = rateWindowHit(c0.w, key, DASHBOARD_WINDOW_MINUTES, t)]
    IN IF c1.w[key].count > DASHBOARD_MAX THEN [c1 EXCEPT !.status = 429] ELSE c1

\* dashboardAuth: 401 unless no credentials are configured or the request
\* carries the configured ones.
dashboardAuth(ctx, authorized) ==
    LET c0 == enter(ctx, "dashboardAuth")
    IN IF authorized THEN c0 ELSE [c0 EXCEPT !.status = 401]

StrictReason == <<"Excessive requests to sensitive endpoint">>

\* Mutant of strictLimiter: the violation is scored, not banned.
strictLimiter_scored(ctx, req, t) ==
    LET c0 == enter(ctx, "strictLimiter")
        key == <<"strict", req.ip>>
        c1 == [c0 EXCEPT !.w = rateWindowHit(c0.w, key, STRICT_WINDOW_MINUTES, t)]
    IN IF c1.w[key].count > STRICT_MAX
       THEN [callRecord(c1, "strictLimiter", req.ip, "rate_limit", t) EXCEPT !.status = 429]
       ELSE c1

\* strictLimiter: past max, the handler bans the client for 120 minutes and
\* answers 429.
strictLimiter(ctx, req, t) ==
    LET c0 == enter(ctx, "strictLimiter")
        key == <<"strict", req.ip>>
        c1 == [c0 EXCEPT !.w = rateWindowHit(c0.w, key, STRICT_WINDOW_MINUTES, t)]
    IN IF c1.w[key].count > STRICT_MAX
       THEN LET st == banIP([b |-> c1.b, s |-> c1.s], req.ip, StrictReason,
                            STRICT_BAN_MINUTES, t)
            IN [c1 EXCEPT !.b = st.b, !.s = st.s, !.status = 429, !.saved = TRUE]
       ELSE c1

\* normalRateLimiter: past max, the handler records a 'rate_limit' suspicious
\* activity and answers 429.
normalRateLimiter(ctx, req, t) ==
    LET c0 == enter(ctx, "normalRateLimiter")
        key == <<"normal", req.ip>>
        c1 == [c0 EXCEPT !.w = rateWindowHit(c0.w, key, ADAPTIVE_WINDOW_MINUTES, t)]
    IN IF c1.w[key].count > NORMAL_MAX
       THEN [callRecord(c1, "normalRateLimiter", req.ip, "rate_limit", t) EXCEPT !.status = 429]
       ELSE c1

AdaptiveReason == <<"Multiple rate limit violations">>

\* strictRateLimiter: past max, the handler bans the client for two hours and
\* answers 429.
strictRateLimiter(ctx, req, t) ==
    LET c0 == enter(ctx, "strictRateLimiter")
        key == <<"suspect", req.ip>>
        c1 == [c0 EXCEPT !.w = rateWindowHit(c0.w, key, ADAPTIVE_WINDOW_MINUTES, t)]
    IN IF c1.w[key].count > SUSPECT_MAX
       THEN LET st == banIP([b |-> c1.b, s |-> c1.s], req.ip, AdaptiveReason,
                            SUSPECT_BAN_MINUTES, t)
            IN [c1 EXCEPT !.b = st.b, !.s = st.s, !.status = 429, !.saved = TRUE]
       ELSE c1

\* Mutant of adaptiveRateLimiter: every client goes to the normal limiter.
adaptiveRateLimiter_normalOnly(ctx, req, t) == normalRateLimiter(ctx, req, t)

\* adaptiveRateLimiter: the strict limiter for a client whose suspicion record
\* has score >= 50 or attempts >= 5, the normal one for any other.
adaptiveRateLimiter(ctx, req, t) ==
    IF /\ req.ip \in DOMAIN ctx.s
       /\ \/ ctx.s[req.ip].score >= SUSPECT_SCORE
          \/ ctx.s[req.ip].attempts >= SUSPECT_ATTEMPTS
    THEN strictRateLimiter(ctx, req, t)
    ELSE normalRateLimiter(ctx, req, t)

\* -------------------------------------------------------- SecurityAnalytics

\* The metrics of a new SecurityAnalytics.
NoMetrics ==
    [total |-> 0, blocked |-> 0, suspicious |-> 0, byEndpoint |-> EmptyMap,
     threats |-> [type \in {"sql_injection", "xss", "path_traversal",
                            "command_injection", "rate_limit", "invalid_input"} |-> 0],
     requestTimes |-> <<>>, avgResponseTime |-> 0]

\* Mutant of addToTimeline: on overflow the newest event is dropped.
addToTimeline_dropsNewest(events, event) ==
    IF Len(events) + 1 > TIMELINE_CAP THEN events ELSE Append(events, event)

\* addToTimeline(event): push, then shift once the length exceeds the cap.
addToTimeline(events, event) ==
    IF Len(events) + 1 > TIMELINE_CAP THEN Tail(Append(events, event))
    ELSE Append(events, event)

\* Mutant of recordRequest: a suspicious request is counted as blocked.
recordRequest_oneTag(a, req, blocked, suspicious, t) ==
    [timeline |-> addToTimeline(a.timeline,
                                [type |-> IF blocked \/ suspicious THEN "blocked" ELSE "normal",
                                 threatType |-> "", ip |-> req.ip, endpoint |-> req.path,
                                 method |-> req.method, timestamp |-> t]),
     metrics |-> [a.metrics EXCEPT
        !.total = @ + 1,
        !.blocked = IF blocked \/ suspicious THEN @ + 1 ELSE @]]

\* The event recordRequest adds.
requestEvent(req, blocked, suspicious, t) ==
    [type |-> IF blocked THEN "blocked" ELSE IF suspicious THEN "suspicious" ELSE "normal",
     threatType |-> "", ip |-> req.ip, endpoint |-> req.path, method |-> req.method,
     timestamp |-> t]

\* The event recordThreat adds.
threatEvent(threatType, ip, t) ==
    [type |-> "threat", threatType |-> threatType, ip |-> ip, endpoint |-> <<>>,
     method |-> "", timestamp |-> t]

\* recordRequest(req, blocked, suspicious) at time t, on a == [timeline, metrics].
recordRequest(a, req, blocked, suspicious, t) ==
    [timeline |-> addToTimeline(a.timeline, requestEvent(req, blocked, suspicious, t)),
     metrics |-> [a.metrics EXCEPT
        !.total = @ + 1,
        !.blocked = IF blocked THEN @ + 1 ELSE @,
        !.suspicious = IF suspicious THEN @ + 1 ELSE @,
        !.byEndpoint = MapSet(@, req.path,
                              (IF req.path \in DOMAIN @ THEN @[req.path] ELSE 0) + 1)]]

\* recordThreat(threatType, ip) at time t.
recordThreat(a, threatType, ip, t) ==
    [timeline |-> addToTimeline(a.timeline, threatEvent(threatType, ip, t)),
     metrics |-> IF threatType \in DOMAIN a.metrics.threats
                 THEN [a.metrics EXCEPT !.threats[threatType] = @ + 1]
                 ELSE a.metrics]

RECURSIVE SumRange(_, _, _)
SumRange(q, lo, hi) ==
    IF lo > hi THEN 0
    ELSE IF lo = hi THEN q[lo]
    ELSE SumRange(q, lo, (lo + hi) \div 2) + SumRange(q, (lo + hi) \div 2 + 1, hi)

SumSeq(q) == SumRange(q, 1, Len(q))

\* Math.round of the quotient of two naturals.
RoundDiv(sum, n) == (2 * sum + n) \div (2 * n)

\* Mutant of recordResponseTime: the mean is taken before the oldest sample
\* is dropped.
recordResponseTime_meanOfPushed(a, ms) ==
    LET pushed == Append(a.metrics.requestTimes, ms)
        kept == IF Len(pushed) > SAMPLES_CAP THEN Tail(pushed) ELSE pushed
    IN [a EXCEPT !.metrics.requestTimes = kept,
                 !.metrics.avgResponseTime = RoundDiv(SumSeq(pushed), Len(pushed))]

\* recordResponseTime(ms).
recordResponseTime(a, ms) ==
    LET pushed == Append(a.metrics.requestTimes, ms)
        kept == IF Len(pushed) > SAMPLES_CAP THEN Tail(pushed) ELSE pushed
    IN [a EXCEPT !.metrics.requestTimes = kept,
                 !.metrics.avgResponseTime = RoundDiv(SumSeq(kept), Len(kept))]

\* cleanTimeline() at time t: only the events younger than a day stay.
cleanTimeline(events, t) ==
    SelectSeq(events, LAMBDA event : event.timestamp > t - RETENTION_MINUTES)

Reverse(q) == [i \in 1..Len(q) |-> q[Len(q) + 1 - i]]

\* Array.prototype.slice(start) with one argument: a negative start counts
\* from the end.
slice(q, start) ==
    LET from == IF start < 0 THEN (IF Len(q) + start > 0 THEN Len(q) + start ELSE 0)
                ELSE (IF start < Len(q) THEN start ELSE Len(q))
    IN SubSeq(q, from + 1, Len(q))

\* getRecentEvents(limit): this.timeline.slice(-limit).reverse().
getRecentEvents(events, limit) == Reverse(slice(events, 0 - limit))

\* parseInt on the texts of the limit parameter the model sends, <<>> for NaN
\* (an absent parameter included).
parseInt(text) ==
    CASE text = <<"2">> -> <<2>>
      [] text = <<"2.5">> -> <<2>>
      [] text = <<"0">> -> <<0>>
      [] text = <<"-1">> -> <<-1>>
      [] text = <<"600">> -> <<600>>
      [] OTHER -> <<>>

\* The limit of GET /events: parseInt(req.query.limit) || 50.
DEFAULT_EVENTS_LIMIT == 50

eventsLimit(text) ==
    IF parseInt(text) = <<>> \/ parseInt(text) = <<0>> THEN DEFAULT_EVENTS_LIMIT
    ELSE parseInt(text)[1]

\* ------------------------------------------------------- the admin routes

\* The reason of a ban made through POST /ban without a reason.
RouteReason == <<"Manual ban">>

\* POST /api/security/ban with body {ip, duration}, each <<>> when absent: 400
\* when ip is missing or empty, otherwise banIP(ip, reason || 'Manual ban',
\* duration || 0) and 200.
banRoute(st, body, t) ==
    IF body.ip = <<>> \/ body.ip = <<"">>
    THEN [st |-> st, status |-> 400, called |-> FALSE]
    ELSE [st |-> banIP(st, body.ip[1], RouteReason,
                       IF body.duration = <<>> THEN 0 ELSE body.duration[1], t),
          status |-> 200, called |-> TRUE]

\* POST /api/security/unban/:ip: unbanIP(ip), then 200 when it returns true
\* and 404 when it returns false (a route parameter is never empty).
unbanRoute(st, ip) ==
    [st |-> unbanIP(st, ip),
     status |-> IF unbanIPResult(st, ip) THEN 200 ELSE 404,
     called |-> TRUE]

\* ------------------------------------------------------------ persistence

\* The members of Object.fromEntries(b), one per key of the table. A Map
\* keeps its keys in insertion order; the table of the model has no order, and
\* the members are listed in one fixed order.
RECURSIVE fromEntries(_)
fromEntries(b) ==
    IF DOMAIN b = {} THEN <<>>
    ELSE LET ip == CHOOSE x \in DOMAIN b : TRUE
         IN <<[key |-> ip, value |-> [kind |-> "object", info |-> b[ip]]]>>
            \o fromEntries(MapDelete(b, ip))

\* JSON.stringify(Object.fromEntries(bannedIPs), null, 2): the text of a JSON
\* object with one member per banned ip, its value the ban record.
stringify(b) == [json |-> "object", members |-> fromEntries(b)]

\* Mutant of saveBannedIPs: the rejection of fs.writeFile is not caught.
saveBannedIPs_uncaught(file, b, d) ==
    IF d = "ok" THEN [file |-> <<stringify(b)>>, outcome |-> "written"]
    ELSE [file |-> file, outcome |-> "thrown"]

\* saveBannedIPs() on the table b: fs.writeFile replaces the text of the
\* file, or rejects, and the rejection is caught and logged.
saveBannedIPs(file, b, d) ==
    IF d = "ok" THEN [file |-> <<stringify(b)>>, outcome |-> "written"]
    ELSE [file |-> file, outcome |-> "logged"]

\* The start of saveBannedIPs() on the table b: the text is built in the turn
\* of the caller and handed to fs.writeFile, and the write is in flight with
\* the writes started before it that have not ended.
startSave(pending, b) == pending \cup {stringify(b)}

\* The end of one fs.writeFile: the file holds the text of this write, whatever
\* was written since the write was started; a rejected write leaves the file.
writeFile(file, text, d) == IF d = "ok" THEN <<text>> ELSE file

\* What the properties of a persisted value that is no object read as:
\* undefined, which tests as a null expiresAt does.
NotARecord == [reason |-> <<>>, bannedAt |-> -1, expiresAt |-> <<>>, attempts |-> 0]

\* The ban record the table holds once a persisted value has been set in it.
infoOf(value) == IF value.kind = "object" THEN value.info ELSE NotARecord

\* Mutant of loadEntries: an entry that expires at the time of the load is kept.
RECURSIVE loadEntries_inclusive(_, _, _, _)
loadEntries_inclusive(members, i, b, t) ==
    IF i > Len(members) THEN [b |-> b, error |-> FALSE]
    ELSE IF members[i].value.kind = "null" THEN [b |-> b, error |-> TRUE]
    ELSE LET info == infoOf(members[i].value)
         IN IF info.expiresAt = <<>> \/ info.expiresAt[1] >= t
            THEN loadEntries_inclusive(members, i + 1, MapSet(b, members[i].key, info), t)
            ELSE loadEntries_inclusive(members, i + 1, b, t)

\* The loop of loadBannedIPs over Object.entries(banned), from the i-th entry
\* on: an entry is set in the table when !info.expiresAt or when its
\* expiresAt is later than the time of the load; reading expiresAt of a null
\* entry throws, which ends the loop with the entries set so far.
RECURSIVE loadEntries(_, _, _, _)
loadEntries(members, i, b, t) ==
    IF i > Len(members) THEN [b |-> b, error |-> FALSE]
    ELSE IF members[i].value.kind = "null" THEN [b |-> b, error |-> TRUE]
    ELSE LET info == infoOf(members[i].value)
         IN IF info.expiresAt = <<>> \/ info.expiresAt[1] > t
            THEN loadEntries(members, i + 1, MapSet(b, members[i].key, info), t)
            ELSE loadEntries(members, i + 1, b, t)

\* loadBannedIPs() at time t on the table b: the table afterwards, and whether
\* an error has been logged. A missing file (ENOENT) is not logged; text that
\* JSON.parse rejects and a top-level null (Object.entries throws) are; a
\* number has no entries; an object and an array have their members.
loadBannedIPs(file, b, t) ==
    IF file = <<>> THEN [b |-> b, error |-> FALSE]
    ELSE CASE file[1].json \in {"unparseable", "null"} -> [b |-> b, error |-> TRUE]
           [] file[1].json = "number" -> [b |-> b, error |-> FALSE]
           [] OTHER -> loadEntries(file[1].members, 1, b, t)

\* ------------------------------------------------------------------ state

Tables == [b |-> bannedIPs, s |-> suspiciousIPs]

SetTables(st) == bannedIPs' = st.b /\ suspiciousIPs' = st.s

\* The file after a step, written when the step has called saveBannedIPs, and
\* whether the step has thrown: banIP and unbanIP await saveBannedIPs, so what
\* it throws is what they throw.
Persist(saved) ==
    /\ storage' = IF saved THEN saveBannedIPs(storage, bannedIPs', disk).file ELSE storage
    /\ raised' = (saved /\ saveBannedIPs(storage, bannedIPs', disk).outcome = "thrown")

\* The ban record of ip as getBanInfo(ip) gives it: <<>> for null.
getBanInfo(st, ip) == IF ip \in DOMAIN st.b THEN <<st.b[ip]>> ELSE <<>>

\* The last operation: its name, client, arguments and return value, and the
\* ban record the client had when it was called.
Op(op, ip, arg, ret) ==
    [op |-> op, ip |-> ip, arg |-> arg, ret |-> ret,
     before |-> IF ip \in IPs THEN getBanInfo(Tables, ip) ELSE <<>>]

\* No request has been handled in the last step.
NoResponse ==
    [ip |-> "", method |-> "", path |-> <<>>, userAgent |-> <<>>, query |-> <<>>,
     body |-> <<>>, status |-> 0, stages |-> <<>>, calls |-> <<>>]

Init ==
    /\ bannedIPs = EmptyMap
    /\ suspiciousIPs = EmptyMap
    /\ requestPatterns = EmptyMap
    /\ response = NoResponse
    /\ now = 0
    /\ rateWindows = EmptyMap
    /\ storage = <<>>
    /\ disk = "ok"
    /\ booting = FALSE
    /\ raised = FALSE
    /\ timeline = <<>>
    /\ metrics = NoMetrics
    /\ lastIndex = ZeroIndex
    /\ inFlight = NoneInFlight
    /\ halfMinutes = 0
    /\ sweeping = NotSweeping
    /\ writes = {}
    /\ lastOp = [op |-> "init", ip |-> "", arg |-> <<>>, ret |-> FALSE, before |-> <<>>]

\* ---------------------------------------------------------------- actions

BanIP(ip, duration) ==
    /\ SetTables(banIP(Tables, ip, ManualReason, duration, now))
    /\ Persist(TRUE)
    /\ lastOp' = Op("banIP", ip, <<duration>>, TRUE)
    /\ response' = NoResponse
    /\ UNCHANGED <<now, requestPatterns, rateWindows, disk, booting, timeline, metrics, lastIndex, inFlight, halfMinutes, sweeping, writes>>

UnbanIP(ip) ==
    /\ SetTables(unbanIP(Tables, ip))
    /\ Persist(unbanIPResult(Tables, ip))
    /\ lastOp' = Op("unbanIP", ip, <<>>, unbanIPResult(Tables, ip))
    /\ response' = NoResponse
    /\ UNCHANGED <<now, requestPatterns, rateWindows, disk, booting, timeline, metrics, lastIndex, inFlight, halfMinutes, sweeping, writes>>

IsBanned(ip) ==
    /\ SetTables(isBanned(Tables, ip, now))
    /\ Persist(ip \in DOMAIN bannedIPs /\ banExpired(bannedIPs[ip], now))
    /\ lastOp' = Op("isBanned", ip, <<>>, isBannedResult(Tables, ip, now))
    /\ response' = NoResponse
    /\ UNCHANGED <<now, requestPatterns, rateWindows, disk, booting, timeline, metrics, lastIndex, inFlight, halfMinutes, sweeping, writes>>

RecordSuspiciousActivity(ip, threatType) ==
    /\ SetTables(recordSuspiciousActivity(Tables, ip, threatType, now))
    /\ lastOp' = Op("recordSuspiciousActivity", ip, <<threatType>>,
                    recordSuspiciousActivityResult(Tables, ip, threatType, now))
    /\ Persist(recordSuspiciousActivityResult(Tables, ip, threatType, now))
    /\ response' = NoResponse
    /\ UNCHANGED <<now, requestPatterns, rateWindows, disk, booting, timeline, metrics, lastIndex, inFlight, halfMinutes, sweeping, writes>>

CleanExpiredBans ==
    /\ SetTables(cleanExpiredBans(Tables, now))
    /\ Persist(\E ip \in DOMAIN bannedIPs : banExpired(bannedIPs[ip], now))
    /\ lastOp' = Op("cleanExpiredBans", "", <<>>, FALSE)
    /\ response' = NoResponse
    /\ UNCHANGED <<now, requestPatterns, rateWindows, disk, booting, timeline, metrics, lastIndex, inFlight, halfMinutes, sweeping, writes>>

\* cleanExpiredBans() up to its await: the expired bans are deleted; when none
\* was, nothing is awaited and the suspicion records are cleaned in the same
\* turn; when one was, saveBannedIPs takes the table as it is now and the
\* sweep waits for the write.
SweepStart ==
    /\ sweeping.pc # "saving"
    /\ \E st1 \in {cleanBans(Tables, now)}, n \in {cleaned(Tables, now)} :
          /\ SetTables(IF n = 0 THEN cleanSuspicions(st1, now) ELSE st1)
          /\ sweeping' = [pc |-> IF n = 0 THEN "done" ELSE "saving", at |-> now,
                          removed |-> n, before |-> Tables, kept |-> st1, resumed |-> st1]
          /\ lastOp' = Op(IF n = 0 THEN "cleanExpiredBans" ELSE "sweep", "", <<>>, FALSE)
    /\ response' = NoResponse
    /\ UNCHANGED <<now, requestPatterns, rateWindows, storage, disk, booting, raised,
                   timeline, metrics, lastIndex, inFlight, halfMinutes, writes>>

\* cleanExpiredBans() after its await: the write of the table taken at the
\* start has ended, and the suspicion records are cleaned with the clock as it
\* is now.
SweepResume ==
    /\ sweeping.pc = "saving"
    /\ storage' = saveBannedIPs(storage, sweeping.kept.b, disk).file
    /\ SetTables(cleanSuspicions(Tables, now))
    /\ sweeping' = [sweeping EXCEPT !.pc = "done", !.resumed = Tables]
    /\ lastOp' = Op("cleanExpiredBans", "", <<>>, FALSE)
    /\ response' = NoResponse
    /\ raised' = FALSE
    /\ UNCHANGED <<now, requestPatterns, rateWindows, disk, booting,
                   timeline, metrics, lastIndex, inFlight, halfMinutes, writes>>

\* A mutation of the ban table up to its await: `st` is the table after the
\* synchronous part, and saveBannedIPs is started when `saved`.
Mutate(op, ip, st, saved) ==
    /\ SetTables(st)
    /\ writes' = IF saved THEN startSave(writes, st.b) ELSE writes
    /\ lastOp' = Op(op, ip, <<>>, saved)
    /\ response' = NoResponse
    /\ UNCHANGED <<now, requestPatterns, rateWindows, storage, disk, booting, raised,
                   timeline, metrics, lastIndex, inFlight, halfMinutes, sweeping>>

\* banIP(ip, reason, duration) up to await this.saveBannedIPs().
BanIPStart(ip, duration) ==
    Mutate("banIP", ip, banIP(Tables, ip, ManualReason, duration, now), TRUE)

\* unbanIP(ip) up to await this.saveBannedIPs().
UnbanIPStart(ip) ==
    Mutate("unbanIP", ip, unbanIP(Tables, ip), unbanIPResult(Tables, ip))

\* isBanned(ip): the lazy expiry calls unbanIP without awaiting it.
IsBannedStart(ip) ==
    Mutate("isBanned", ip, isBanned(Tables, ip, now),
           ip \in DOMAIN bannedIPs /\ banExpired(bannedIPs[ip], now))

\* cleanExpiredBans() up to await this.saveBannedIPs(), in a process with no
\* suspicion record.
CleanExpiredBansStart ==
    /\ suspiciousIPs = EmptyMap
    /\ Mutate("cleanExpiredBans", "", cleanBans(Tables, now), cleaned(Tables, now) > 0)

\* One of the writes in flight ends: the libuv thread pool runs the writes of
\* one file side by side and ends them in any order.
WriteFileEnd(text) ==
    /\ text \in writes
    /\ storage' = writeFile(storage, text, disk)
    /\ writes' = writes \ {text}
    /\ lastOp' = Op("writeFile", "", <<>>, FALSE)
    /\ response' = NoResponse
    /\ UNCHANGED <<bannedIPs, suspiciousIPs, now, requestPatterns, rateWindows, disk,
                   booting, raised, timeline, metrics, lastIndex, inFlight, halfMinutes,
                   sweeping>>

Tick ==
    /\ now + TickMinutes <= MaxNow
    /\ now' = now + TickMinutes
    /\ lastOp' = Op("tick", "", <<>>, FALSE)
    /\ response' = NoResponse
    /\ UNCHANGED <<bannedIPs, suspiciousIPs, requestPatterns, rateWindows,
                   storage, disk, booting, raised, timeline, metrics, lastIndex, inFlight, halfMinutes, sweeping, writes>>

\* The handler of POST /api/security/ban on a request that has reached it.
PostBan(body) ==
    /\ \E r \in {banRoute(Tables, body, now)} :
          /\ SetTables(r.st)
          /\ Persist(r.called)
          /\ lastOp' = Op("POST /ban", IF body.ip = <<>> THEN "" ELSE body.ip[1],
                          <<body.duration>>, r.called)
          /\ response' = [NoResponse EXCEPT !.path = <<"api", "security", "ban">>,
                                            !.status = r.status]
    /\ UNCHANGED <<now, requestPatterns, rateWindows, disk, booting, timeline, metrics, lastIndex, inFlight, halfMinutes, sweeping, writes>>

\* The handler of POST /api/security/unban/:ip on a request that has reached it.
PostUnban(ip) ==
    /\ \E r \in {unbanRoute(Tables, ip)} :
          /\ SetTables(r.st)
          /\ Persist(unbanIPResult(Tables, ip))
          /\ lastOp' = Op("POST /unban", ip, <<>>, r.called)
          /\ response' = [NoResponse EXCEPT !.path = <<"api", "security", "unban", ip>>,
                                            !.status = r.status]
    /\ UNCHANGED <<now, requestPatterns, rateWindows, disk, booting, timeline, metrics, lastIndex, inFlight, halfMinutes, sweeping, writes>>

\* The load the constructor starts: it ends in a later turn, once the file
\* has been read.
LoadBannedIPs ==
    /\ booting
    /\ \E r \in {loadBannedIPs(storage, bannedIPs, now)} :
          /\ bannedIPs' = r.b
          /\ lastOp' = Op("loadBannedIPs", "", <<>>, r.error)
    /\ booting' = FALSE
    /\ response' = NoResponse
    /\ UNCHANGED <<suspiciousIPs, requestPatterns, rateWindows, storage, disk,
                   now, raised, timeline, metrics, lastIndex, inFlight, halfMinutes, sweeping, writes>>

\* The storage starts or stops rejecting writes (disk full, directory missing,
\* file not writable).
DiskFault ==
    /\ disk' = IF disk = "ok" THEN "failing" ELSE "ok"
    /\ lastOp' = Op("disk", "", <<>>, FALSE)
    /\ response' = NoResponse
    /\ UNCHANGED <<bannedIPs, suspiciousIPs, requestPatterns, rateWindows,
                   storage, now, booting, raised, timeline, metrics, lastIndex, inFlight, halfMinutes, sweeping, writes>>

\* One request through the stages of the server that run in one turn, in the
\* order of app.use: a stage runs when no stage before it has answered.  With
\* status 0 at the end the request goes on to the static files, the rate
\* limiters and the route handlers ("next").
ServeRequest(req) ==
    \E c0 \in {[b |-> bannedIPs, s |-> suspiciousIPs, p |-> requestPatterns,
                 status |-> 0, stages |-> <<>>, calls |-> <<>>]} :
    \E c1 \in {ipBanCheck(c0, req, now)} :
    \E c2 \in {IF c1.status = 0 THEN patternAnalysisMiddleware(c1, req, now) ELSE c1} :
    \E c3 \in {IF c2.status = 0 THEN noUserAgentMiddleware(c2, req, now) ELSE c2} :
    \E c4 \in {IF c3.status = 0 THEN suspiciousUserAgentMiddleware(c3, req, now) ELSE c3} :
    \E c5 \in {IF c4.status = 0 THEN attackDetectionMiddleware(c4, req, now) ELSE c4} :
    \E c \in {IF c5.status = 0 THEN enter(c5, "next") ELSE c5} :
       /\ \A ip \in DOMAIN c.p : Len(c.p[ip].requests) <= MaxPattern
       /\ bannedIPs' = c.b
       /\ suspiciousIPs' = c.s
       /\ requestPatterns' = c.p
       /\ response' = [ip |-> req.ip, method |-> req.method, path |-> req.path,
                       userAgent |-> req.userAgent,
                       query |-> req.query, body |-> req.body,
                       status |-> c.status, stages |-> c.stages, calls |-> c.calls]
       /\ Persist(c.b # bannedIPs \/ \E i \in 1..Len(c.calls) : c.calls[i].ret)
       /\ lastOp' = Op("request", req.ip, <<>>, FALSE)
       /\ UNCHANGED <<now, rateWindows, disk, booting, lastIndex, inFlight, halfMinutes, sweeping, writes>>

\* A request in a specification that leaves the analytics out.
HandleRequest(req) == ServeRequest(req) /\ UNCHANGED <<timeline, metrics, lastIndex, inFlight, halfMinutes, sweeping, writes>>

\* A request with its analytics: the attack detection stage calls
\* analytics.recordThreat with the type it passes to recordSuspiciousActivity.
TrackedRequest(req) ==
    /\ ServeRequest(req)
    /\ \E a \in {[timeline |-> timeline, metrics |-> metrics]} :
       \E found \in {{i \in 1..Len(response'.calls) :
                        response'.calls[i].stage = "attackDetection"}} :
       \E a2 \in {IF found = {} THEN a
                  ELSE recordThreat(a, response'.calls[CHOOSE i \in found : TRUE].type,
                                    req.ip, now)} :
          /\ timeline' = a2.timeline
          /\ metrics' = a2.metrics

\* The 'finish' event of the last request: its response has been sent, by a
\* stage, by express.static (200) or by its route (statusCode), after ms of
\* handling; the request is counted unless its path is a dashboard endpoint
\* or ends in a static extension.
FinishRequest(statusCode, ms) ==
    /\ lastOp.op \in {"request", "limiter"}
    /\ response.stages # <<>>
    /\ \/ response.status = statusCode
       \/ /\ response.status = 0
          /\ \/ response.stages[Len(response.stages)] = "route"
             \/ /\ response.stages[Len(response.stages)] = "next"
                /\ isStaticFile(response.path)
                /\ statusCode = 200
    /\ \E req \in {[ip |-> response.ip, path |-> response.path, method |-> response.method]} :
       \E a \in {[timeline |-> timeline, metrics |-> metrics]} :
       \E a2 \in {IF \/ \E e \in dashboardEndpoints : StartsWith(req.path, e)
                     \/ isStaticFile(req.path)
                  THEN a
                  ELSE recordResponseTime(
                           recordRequest(a, req, statusCode = 403,
                                         statusCode \in {400, 429}, now), ms)} :
          /\ timeline' = a2.timeline
          /\ metrics' = a2.metrics
    /\ response' = [response EXCEPT !.status = statusCode]
    /\ lastOp' = Op("finish", response.ip, <<statusCode>>, FALSE)
    /\ UNCHANGED <<bannedIPs, suspiciousIPs, requestPatterns, rateWindows,
                   storage, disk, now, booting, raised, lastIndex, inFlight, halfMinutes, sweeping, writes>>

\* analytics.recordRequest(req, blocked, suspicious) called directly.
RecordRequest(req, blocked, suspicious) ==
    /\ \E a \in {recordRequest([timeline |-> timeline, metrics |-> metrics],
                               req, blocked, suspicious, now)} :
          /\ timeline' = a.timeline
          /\ metrics' = a.metrics
    /\ lastOp' = Op("recordRequest", req.ip, <<blocked, suspicious>>, FALSE)
    /\ response' = NoResponse
    /\ UNCHANGED <<bannedIPs, suspiciousIPs, requestPatterns, rateWindows,
                   storage, disk, now, booting, raised, lastIndex, inFlight, halfMinutes, sweeping, writes>>

\* analytics.recordThreat(threatType, ip) called directly.
RecordThreat(threatType, ip) ==
    /\ \E a \in {recordThreat([timeline |-> timeline, metrics |-> metrics],
                              threatType, ip, now)} :
          /\ timeline' = a.timeline
          /\ metrics' = a.metrics
    /\ lastOp' = Op("recordThreat", ip, <<threatType>>, FALSE)
    /\ response' = NoResponse
    /\ UNCHANGED <<bannedIPs, suspiciousIPs, requestPatterns, rateWindows,
                   storage, disk, now, booting, raised, lastIndex, inFlight, halfMinutes, sweeping, writes>>

\* The timer of the timeline sweep, called directly.
CleanTimeline ==
    /\ timeline' = cleanTimeline(timeline, now)
    /\ lastOp' = Op("cleanTimeline", "", <<>>, FALSE)
    /\ response' = NoResponse
    /\ UNCHANGED <<bannedIPs, suspiciousIPs, requestPatterns, rateWindows,
                   storage, disk, now, booting, raised, metrics, lastIndex, inFlight, halfMinutes, sweeping, writes>>

\* Time passes, and the timer of the timeline sweep fires on time: the sweep
\* runs whenever the clock passes a multiple of its period.
TimelineTick ==
    /\ now + RetentionStep <= MaxRetentionNow
    /\ now' = now + RetentionStep
    /\ timeline' = IF now' \div TIMELINE_SWEEP_MINUTES > now \div TIMELINE_SWEEP_MINUTES
                   THEN cleanTimeline(timeline, now') ELSE timeline
    /\ lastOp' = Op("tick", "", <<>>, FALSE)
    /\ response' = NoResponse
    /\ UNCHANGED <<bannedIPs, suspiciousIPs, requestPatterns, rateWindows,
                   storage, disk, booting, raised, metrics, lastIndex, inFlight, halfMinutes, sweeping, writes>>

\* A request of ip arrives that will record a violation of threatType.
Arrive(ip, threatType) ==
    /\ BagCardinality(inFlight.pending) < MaxInFlight
    /\ inFlight' = [inFlight EXCEPT
                       !.pending = @ (+) SetToBag({arrival(Tables, ip, threatType)})]
    /\ lastOp' = Op("arrive", ip, <<threatType>>, FALSE)
    /\ response' = NoResponse
    /\ UNCHANGED <<bannedIPs, suspiciousIPs, requestPatterns, rateWindows, storage, disk,
                   now, booting, raised, timeline, metrics, lastIndex, halfMinutes, sweeping, writes>>

\* A request in flight makes its recordSuspiciousActivity call, which has banned when it leaves no suspicion record; the calls
\* recorded and their weights are counted from the last ban.
RecordInFlight(entry) ==
    /\ BagIn(entry, inFlight.pending)
    /\ \E after \in {recordInFlight(Tables, entry, now)} :
       \E banned \in {entry.ip \notin DOMAIN after.s} :
          /\ SetTables(after)
          /\ lastOp' = Op("recordSuspiciousActivity", entry.ip, <<entry.type>>, banned)
          /\ Persist(banned)
          /\ inFlight' = [pending |-> inFlight.pending (-) SetToBag({entry}),
                          recorded |-> IF banned THEN 0 ELSE inFlight.recorded + 1,
                          weights |-> IF banned THEN 0
                                      ELSE inFlight.weights + threatScore(entry.type)]
    /\ response' = NoResponse
    /\ UNCHANGED <<now, requestPatterns, rateWindows, disk, booting, timeline, metrics,
                   lastIndex, halfMinutes, sweeping, writes>>

\* The clock in half minutes.
HalfMinuteClock == 2 * now + halfMinutes

\* Half a minute passes.
HalfTick ==
    /\ HalfMinuteClock < MaxHalfMinutes
    /\ halfMinutes' = 1 - halfMinutes
    /\ now' = IF halfMinutes = 1 THEN now + 1 ELSE now
    /\ lastOp' = Op("tick", "", <<>>, FALSE)
    /\ response' = NoResponse
    /\ UNCHANGED <<bannedIPs, suspiciousIPs, requestPatterns, rateWindows, storage, disk,
                   booting, raised, timeline, metrics, lastIndex, inFlight, sweeping, writes>>

\* Half a minute passes, and the sweep timer of pattern analysis, started
\* when the module was loaded at time 0, runs its callback when a period has
\* passed; lastOp.arg then holds the entries and the tables as they were.
SweepTick ==
    /\ HalfMinuteClock < MaxSweepClock
    /\ halfMinutes' = 1 - halfMinutes
    /\ now' = IF halfMinutes = 1 THEN now + 1 ELSE now
    /\ IF (HalfMinuteClock + 1) % (PATTERN_SWEEP_MINUTES * 2) = 0
       THEN /\ requestPatterns' = sweepPatterns(requestPatterns, HalfMinuteClock + 1, 2)
            /\ lastOp' = Op("patternSweep", "", <<requestPatterns, Tables>>, FALSE)
       ELSE /\ requestPatterns' = requestPatterns
            /\ lastOp' = Op("tick", "", <<>>, FALSE)
    /\ response' = NoResponse
    /\ UNCHANGED <<bannedIPs, suspiciousIPs, rateWindows, storage, disk, booting, raised,
                   timeline, metrics, lastIndex, inFlight, sweeping, writes>>

\* One request of ip through adaptiveRateLimiter; lastOp.arg holds the tables
\* and the stores of the limiters as they were.
AdaptiveRequest(ip) ==
    /\ \E req \in {[ip |-> ip, path |-> <<"api", "weather">>]} :
       \E c0 \in {[b |-> bannedIPs, s |-> suspiciousIPs, p |-> requestPatterns,
                    w |-> rateWindows, status |-> 0, stages |-> <<>>,
                    calls |-> <<>>, saved |-> FALSE]} :
       \E c \in {adaptiveRateLimiter(c0, req, now)} :
          /\ bannedIPs' = c.b
          /\ suspiciousIPs' = c.s
          /\ rateWindows' = c.w
          /\ response' = [NoResponse EXCEPT !.ip = ip, !.method = "GET", !.path = req.path,
                                            !.status = c.status, !.stages = c.stages,
                                            !.calls = c.calls]
          /\ Persist(c.saved \/ \E i \in 1..Len(c.calls) : c.calls[i].ret)
    /\ lastOp' = Op("adaptiveRateLimiter", ip, <<Tables, rateWindows>>, FALSE)
    /\ UNCHANGED <<now, requestPatterns, disk, booting, timeline, metrics, lastIndex, inFlight,
                   halfMinutes, sweeping, writes>>

\* Five minutes pass.
WindowTick ==
    /\ now + 5 <= MaxAdaptiveNow
    /\ now' = now + 5
    /\ lastOp' = Op("tick", "", <<>>, FALSE)
    /\ response' = NoResponse
    /\ UNCHANGED <<bannedIPs, suspiciousIPs, requestPatterns, rateWindows, storage, disk,
                   booting, raised, timeline, metrics, lastIndex, inFlight, halfMinutes,
                   sweeping, writes>>

\* patternAnalysisMiddleware on one request, the clock read to the half
\* minute.
AnalyseRequest(req) ==
    /\ \E c0 \in {[b |-> bannedIPs, s |-> suspiciousIPs, p |-> requestPatterns,
                   status |-> 0, stages |-> <<>>, calls |-> <<>>]} :
       \E c \in {patternAnalysis(c0, req, HalfMinuteClock, 2)} :
          /\ bannedIPs' = c.b
          /\ suspiciousIPs' = c.s
          /\ requestPatterns' = c.p
          /\ response' = [ip |-> req.ip, method |-> req.method, path |-> req.path,
                       userAgent |-> req.userAgent,
                          query |-> req.query, body |-> req.body,
                          status |-> c.status, stages |-> c.stages, calls |-> c.calls]
          /\ Persist(\E i \in 1..Len(c.calls) : c.calls[i].ret)
    /\ lastOp' = Op("patternAnalysis", req.ip, <<>>, FALSE)
    /\ UNCHANGED <<now, rateWindows, disk, booting, timeline, metrics, lastIndex, inFlight,
                   halfMinutes, sweeping, writes>>

\* One call detectThreats(input, paramName); lastOp.ret is the list of threats
\* it returns.
DetectThreats(value, paramName) ==
    /\ \E called \in {detectThreatsCall(lastIndex, value, paramName)} :
          /\ lastIndex' = called.li
          /\ lastOp' = Op("detectThreats", "", <<value, paramName>>, called.threats)
    /\ response' = NoResponse
    /\ UNCHANGED <<bannedIPs, suspiciousIPs, requestPatterns, rateWindows,
                   storage, disk, now, booting, raised, timeline, metrics, inFlight, halfMinutes, sweeping, writes>>

\* analytics.recordResponseTime(ms) called directly; lastOp.arg holds ms and
\* the number of calls made so far.
RecordResponseTime(ms) ==
    /\ \E a \in {recordResponseTime([timeline |-> timeline, metrics |-> metrics], ms)} :
          /\ timeline' = a.timeline
          /\ metrics' = a.metrics
    /\ lastOp' = Op("recordResponseTime", "",
                    <<ms, IF lastOp.op = "recordResponseTime" THEN lastOp.arg[2] + 1 ELSE 1>>,
                    FALSE)
    /\ response' = NoResponse
    /\ UNCHANGED <<bannedIPs, suspiciousIPs, requestPatterns, rateWindows, storage, disk,
                   now, booting, raised, lastIndex, inFlight, halfMinutes, sweeping, writes>>

\* analytics.getRecentEvents(limit); lastOp.ret is the list it returns.
GetRecentEvents(limit) ==
    /\ lastOp' = Op("getRecentEvents", "", <<limit>>, getRecentEvents(timeline, limit))
    /\ response' = NoResponse
    /\ UNCHANGED <<bannedIPs, suspiciousIPs, requestPatterns, rateWindows,
                   storage, disk, now, booting, raised, timeline, metrics, lastIndex, inFlight, halfMinutes, sweeping, writes>>

\* The handler of GET /api/security/events?limit=text (text <<>> when the
\* parameter is absent); lastOp.ret is the list of events it sends.
GetEvents(text) ==
    /\ lastOp' = Op("GET /events", "", <<text>>,
                    getRecentEvents(timeline, eventsLimit(text)))
    /\ response' = [NoResponse EXCEPT !.path = <<"api", "security", "events">>,
                                      !.status = 200]
    /\ UNCHANGED <<bannedIPs, suspiciousIPs, requestPatterns, rateWindows,
                   storage, disk, now, booting, raised, timeline, metrics, lastIndex, inFlight, halfMinutes, sweeping, writes>>

\* The turn in which the last request, handed on by the stages above, goes
\* through the rate limiters of its path, in the order of app.use, and
\* reaches its route.
ContinueRequest(authorized) ==
    /\ lastOp.op = "request"
    /\ passedOn(response)
    /\ \E req \in {[ip |-> response.ip, path |-> response.path]} :
       \E c0 \in {[b |-> bannedIPs, s |-> suspiciousIPs, p |-> requestPatterns,
                    w |-> rateWindows, status |-> 0, stages |-> response.stages,
                    calls |-> response.calls, saved |-> FALSE]} :
       \E c1 \in {IF \/ StartsWith(req.path, <<"api", "weather">>)
                      \/ StartsWith(req.path, <<"api", "forecast">>)
                   THEN moderateLimiter(c0, req, now) ELSE c0} :
       \E c2 \in {IF c1.status = 0 /\ StartsWith(req.path, <<"api", "security">>)
                   THEN dashboardLimiter(c1, req, now) ELSE c1} :
       \E c3 \in {IF c2.status = 0 /\ StartsWith(req.path, <<"api", "security">>)
                   THEN dashboardAuth(c2, authorized) ELSE c2} :
       \E c4 \in {IF /\ c3.status = 0
                      /\ \/ StartsWith(req.path, <<"api", "security", "ban">>)
                         \/ StartsWith(req.path, <<"api", "security", "unban">>)
                   THEN strictLimiter(c3, req, now) ELSE c3} :
       \E c \in {IF c4.status = 0 THEN enter(c4, "route") ELSE c4} :
          /\ \A key \in DOMAIN c.w : c.w[key].count <= MaxHits
          /\ bannedIPs' = c.b
          /\ suspiciousIPs' = c.s
          /\ rateWindows' = c.w
          /\ response' = [response EXCEPT !.status = c.status, !.stages = c.stages,
                                          !.calls = c.calls]
          /\ Persist(c.saved \/ \E i \in (Len(response.calls) + 1)..Len(c.calls) : c.calls[i].ret)
          /\ lastOp' = Op("limiter", req.ip, <<authorized>>, FALSE)
          /\ UNCHANGED <<now, requestPatterns, disk, booting, timeline, metrics, lastIndex, inFlight, halfMinutes, sweeping, writes>>

\* The client of the single-client specifications.
Client == "1.2.3.4"

LifecycleTypes == {"sql_injection"}

ScoreTypes == {"sql_injection", "invalid_input"}

\* One client, the clock running: the life of a ban and of a suspicion record.
Next ==
    \/ \E duration \in Durations : BanIP(Client, duration)
    \/ UnbanIP(Client)
    \/ IsBanned(Client)
    \/ \E threatType \in LifecycleTypes : RecordSuspiciousActivity(Client, threatType)
    \/ CleanExpiredBans
    \/ Tick

Spec == Init /\ [][Next]_vars

\* Two clients, the clock stopped: what the operations on one client do to another.
NextClients ==
    \/ \E ip \in IPs, duration \in Durations : BanIP(ip, duration)
    \/ \E ip \in IPs : UnbanIP(ip)
    \/ \E ip \in IPs : IsBanned(ip)
    \/ \E ip \in IPs, threatType \in LifecycleTypes : RecordSuspiciousActivity(ip, threatType)
    \/ CleanExpiredBans

SpecClients == Init /\ [][NextClients]_vars

\* One client, the clock stopped, two threat types: both thresholds are reached.
NextScore ==
    \/ \E duration \in Durations : BanIP(Client, duration)
    \/ UnbanIP(Client)
    \/ IsBanned(Client)
    \/ \E threatType \in ScoreTypes : RecordSuspiciousActivity(Client, threatType)
    \/ CleanExpiredBans

SpecScore == Init /\ [][NextScore]_vars

\* The threat types the callers of recordSuspiciousActivity pass: the five
\* categories of detectThreats, the fixed types of the middlewares, and
\* "unknown", the default of a missing argument.
WeightTypes ==
    {"sql_injection", "path_traversal", "xss", "rate_limit", "invalid_input",
     "command_injection", "ldap_injection", "suspicious_tool", "no_user_agent",
     "unknown"}

\* One client, the clock stopped, every threat type, at most MaxCalls calls on
\* one suspicion record; manual bans of a client that is not under suspicion.
NextWeights ==
    \/ \E threatType \in WeightTypes :
          /\ Client \in DOMAIN suspiciousIPs => suspiciousIPs[Client].attempts < MaxCalls
          /\ RecordSuspiciousActivity(Client, threatType)
    \/ UnbanIP(Client)
    \/ Client \notin DOMAIN suspiciousIPs /\ BanIP(Client, 0)

SpecWeights == Init /\ [][NextWeights]_vars

\* ----------------------------------------------------------- the requests

WeatherPath == <<"api", "weather">>

StatsPath == <<"api", "security", "stats">>

UnbanPath == <<"api", "security", "unban", "1.2.3.4">>

StylePath == <<"style.css">>

Value(text) == [isString |-> TRUE, text |-> text]

\* A query value that is no string: ?city[]=... gives an array.
ArrayValue == [isString |-> FALSE, text |-> SqlInput]

Entries(key, values) == {<<>>} \cup {<<[key |-> key, value |-> v]>> : v \in values}

\* One client, the clock running, requests that are benign or carry a SQL
\* injection in their query: the ban check on the life of a ban.
RequestsOfBanCheck ==
    [ip : {Client}, method : {"GET"}, path : {WeatherPath, StatsPath, UnbanPath},
     userAgent : {<<"Mozilla/5.0">>},
     query : Entries("city", {Value(CityInput), Value(SqlInput)}),
     body : {<<>>}]

NextBanCheck ==
    \/ \E duration \in Durations : BanIP(Client, duration)
    \/ UnbanIP(Client)
    \/ CleanExpiredBans
    \/ Tick
    \/ \E req \in RequestsOfBanCheck : HandleRequest(req)

SpecBanCheck == Init /\ [][NextBanCheck]_vars

\* One client, the clock stopped, every kind of user agent, requests that are
\* benign or carry a SQL injection: the stages after the ban check.
RequestsOfPipeline ==
    [ip : {Client}, method : {"GET"}, path : {WeatherPath, StylePath},
     userAgent : {<<>>, <<"Mozilla/5.0">>, <<"sqlmap/1.7">>},
     query : Entries("city", {Value(SqlInput)}),
     body : {<<>>}]

NextPipeline ==
    \/ UnbanIP(Client)
    \/ \E req \in RequestsOfPipeline : HandleRequest(req)

SpecPipeline == Init /\ [][NextPipeline]_vars

\* One client with a browser's user agent, the clock stopped, every kind of
\* value in the query and in the body: the attack detection stage.
RequestsOfDetection ==
    [ip : {Client}, method : {"GET"}, path : {WeatherPath, StylePath},
     userAgent : {<<"Mozilla/5.0">>},
     query : Entries("city", {Value(CityInput), Value(SqlInput), Value(XssInput), ArrayValue}),
     body : Entries("note", {Value(SqlInput)})]

NextDetection ==
    \/ UnbanIP(Client)
    \/ \E req \in RequestsOfDetection : HandleRequest(req)

SpecDetection == Init /\ [][NextDetection]_vars

\* One client, the clock running, a storage that rejects writes at times: the
\* operations that save the ban table, and requests with a SQL injection,
\* which end in a lazy expiry or in an automatic ban.
RequestsOfFaults ==
    [ip : {Client}, method : {"GET"}, path : {WeatherPath},
     userAgent : {<<"Mozilla/5.0">>},
     query : {<<[key |-> "city", value |-> Value(SqlInput)]>>},
     body : {<<>>}]

NextFaults ==
    \/ \E duration \in Durations : BanIP(Client, duration)
    \/ UnbanIP(Client)
    \/ IsBanned(Client)
    \/ CleanExpiredBans
    \/ Tick
    \/ DiskFault
    \/ \E req \in RequestsOfFaults : HandleRequest(req)

SpecFaults == Init /\ [][NextFaults]_vars

\* The ban records a file of an earlier run holds: permanent, or expiring at
\* one of three times.
PersistedInfos ==
    {[reason |-> ManualReason, bannedAt |-> 0, expiresAt |-> e, attempts |-> 1] :
        e \in {<<>>, <<0>>, <<60>>, <<120>>}}

\* The values of the members of a file: a ban record, or what a damaged or
\* hand-edited file may hold in its place, a string or null.
PersistedValues ==
    {[kind |-> "object", info |-> info] : info \in PersistedInfos}
        \cup {[kind |-> k, info |-> NotARecord] : k \in {"string", "null"}}

\* The member lists of a file: at most one member per client, in either order.
PersistedMembers ==
    {<<>>}
        \cup {<<[key |-> ip, value |-> v]>> : ip \in IPs, v \in PersistedValues}
        \cup {m \in {<<[key |-> ip, value |-> v], [key |-> other, value |-> w]>> :
                       ip \in IPs, other \in IPs, v \in PersistedValues,
                       w \in PersistedValues} : m[1].key # m[2].key}

\* The files the process may find at startup: none, an object, an array of
\* one string, a number, null, or text that is no JSON.
PersistedFiles ==
    {<<>>}
        \cup {<<[json |-> "object", members |-> m]>> : m \in PersistedMembers}
        \cup {<<[json |-> "array",
                 members |-> <<[key |-> "0",
                                value |-> [kind |-> "string", info |-> NotARecord]]>>]>>}
        \cup {<<[json |-> j, members |-> <<>>]>> : j \in {"number", "null", "unparseable"}}

\* A process that starts on a file of an earlier run, at one of two times.
InitLoad ==
    /\ bannedIPs = EmptyMap
    /\ suspiciousIPs = EmptyMap
    /\ requestPatterns = EmptyMap
    /\ response = NoResponse
    /\ now \in {0, 60}
    /\ rateWindows = EmptyMap
    /\ storage \in PersistedFiles
    /\ disk = "ok"
    /\ booting = TRUE
    /\ raised = FALSE
    /\ timeline = <<>>
    /\ metrics = NoMetrics
    /\ lastIndex = ZeroIndex
    /\ inFlight = NoneInFlight
    /\ halfMinutes = 0
    /\ sweeping = NotSweeping
    /\ writes = {}
    /\ lastOp = [op |-> "init", ip |-> "", arg |-> <<>>, ret |-> FALSE, before |-> <<>>]

\* Startup: the load, a manual ban that may come before it, and the checks
\* and the clock after it.
NextLoad ==
    \/ LoadBannedIPs
    \/ booting /\ BanIP(Client, 0)
    \/ ~booting /\ \E ip \in IPs : IsBanned(ip)
    \/ ~booting /\ Tick

SpecLoad == InitLoad /\ [][NextLoad]_vars

\* The ids an administrator may send: the clients, and a string that is no
\* address.
AdminIds == IPs \cup {"not-an-ip"}

\* The bodies of POST /ban: ip absent, empty or given; duration absent, zero,
\* positive or negative.
BanBodies ==
    [ip : {<<>>, <<"">>} \cup {<<id>> : id \in AdminIds},
     duration : {<<>>, <<0>>, <<60>>, <<-5>>}]

\* The admin routes and the clock.
NextAdmin ==
    \/ \E body \in BanBodies : PostBan(body)
    \/ \E ip \in AdminIds : PostUnban(ip)
    \/ Tick

SpecAdmin == Init /\ [][NextAdmin]_vars

\* The request the analytics are called with directly.
TimelineRequest == [ip |-> Client, path |-> WeatherPath, method |-> "GET"]

\* The analytics alone, the clock stopped: events of every kind first, then
\* normal requests until the timeline has overflowed.
NextTimeline ==
    \/ \E blocked \in BOOLEAN, suspicious \in BOOLEAN :
          /\ metrics.total < MaxEarly
          /\ RecordRequest(TimelineRequest, blocked, suspicious)
    \/ /\ metrics.total >= MaxEarly
       /\ metrics.total < MaxAdds
       /\ RecordRequest(TimelineRequest, FALSE, FALSE)
    \/ /\ metrics.total < MaxEarly
       /\ Len(timeline) < MaxEarly
       /\ RecordThreat("xss", Client)
    \/ GetRecentEvents(TIMELINE_CAP)

SpecTimeline == Init /\ [][NextTimeline]_vars

\* The limits getRecentEvents is called with, and the texts of the limit
\* parameter of GET /events (<<>> when absent).
Limits == {-1, 0, 1, 2, 5}

LimitTexts == {<<>>, <<"2">>, <<"2.5">>, <<"0">>, <<"-1">>, <<"600">>, <<"abc">>}

\* A short timeline of events of every kind, read through getRecentEvents and
\* through GET /events.
NextEvents ==
    \/ \E blocked \in BOOLEAN, suspicious \in BOOLEAN :
          /\ Len(timeline) < MaxEvents
          /\ RecordRequest(TimelineRequest, blocked, suspicious)
    \/ Len(timeline) < MaxEvents /\ RecordThreat("xss", Client)
    \/ \E limit \in Limits : GetRecentEvents(limit)
    \/ \E text \in LimitTexts : GetEvents(text)

SpecEvents == Init /\ [][NextEvents]_vars

\* The timeline over more than a day: a few recorded requests, the clock, the
\* hourly sweep on time, and sweeps in between.
NextRetention ==
    \/ Len(timeline) < MaxKept /\ RecordRequest(TimelineRequest, FALSE, FALSE)
    \/ TimelineTick
    \/ CleanTimeline

SpecRetention == Init /\ [][NextRetention]_vars

\* A file of the weather route that express.static does not serve.
WeatherIconPath == <<"api", "weather", "logo.png">>

ForecastPath == <<"api", "forecast">>

\* One client, the clock running, benign requests for the weather and the
\* forecast: the moderate limiter.
RequestsOfModerate ==
    [ip : {Client}, method : {"GET"}, path : {WeatherIconPath, ForecastPath},
     userAgent : {<<"Mozilla/5.0">>}, query : {<<>>}, body : {<<>>}]

NextModerate ==
    \/ \E req \in RequestsOfModerate : HandleRequest(req)
    \/ ContinueRequest(TRUE)
    \/ Tick

SpecModerate == Init /\ [][NextModerate]_vars

BanPath == <<"api", "security", "ban">>

\* A path under /api/security/ban that pattern analysis takes for a file.
BanScriptPath == <<"api", "security", "ban", "script.js">>

\* One client, the clock running, requests for the ban endpoint that pass
\* dashboardAuth, and a request that carries a SQL injection: the strict
\* limiter.
RequestsOfStrict ==
    [ip : {Client}, method : {"POST"}, path : {BanPath, BanScriptPath},
     userAgent : {<<"Mozilla/5.0">>}, query : {<<>>}, body : {<<>>}]
    \cup
    [ip : {Client}, method : {"GET"}, path : {StylePath},
     userAgent : {<<"Mozilla/5.0">>}, query : Entries("city", {Value(SqlInput)}) \ {<<>>},
     body : {<<>>}]

NextStrict ==
    \/ \E req \in RequestsOfStrict : HandleRequest(req)
    \/ ContinueRequest(TRUE)
    \/ Tick

SpecStrict == Init /\ [][NextStrict]_vars

\* The values and the parameter names of the calls of detectThreats.
DetectValues ==
    {Value(text) : text \in {CityInput, SqlInput, XssInput, TraversalInput,
                             CommandInput, UnionInput, MixedInput, ""}}
    \cup {ArrayValue}

ParamNames == {"query", "body", "params"} \X {"city", "lat", "lon", "note", "q"}

\* Calls of detectThreats, one after the other, in any order.
NextRegex == \E value \in DetectValues, paramName \in ParamNames : DetectThreats(value, paramName)

SpecRegex == Init /\ [][NextRegex]_vars

InFlightTypes == {"sql_injection", "xss"}

\* One client, the clock stopped: requests that arrive with a violation while
\* the client is not banned, and record it later, in any order.
NextInFlight ==
    \/ \E threatType \in InFlightTypes :
          Client \notin DOMAIN bannedIPs /\ Arrive(Client, threatType)
    \/ \E entry \in BagToSet(inFlight.pending) : RecordInFlight(entry)

SpecInFlight == Init /\ [][NextInFlight]_vars

\* One client, the clock stopped, manual bans, every kind of user agent,
\* requests for the weather and for the ban endpoint, benign or with a SQL
\* injection, with or without the credentials of the dashboard: every stage
\* rejects some request.
RequestsOfOrder ==
    [ip : {Client}, method : {"GET"}, path : {WeatherPath, BanPath},
     userAgent : {<<>>, <<"Mozilla/5.0">>, <<"sqlmap/1.7">>},
     query : Entries("city", {Value(SqlInput)}),
     body : {<<>>}]

NextOrder ==
    \/ \E req \in RequestsOfOrder : HandleRequest(req)
    \/ \E authorized \in BOOLEAN : ContinueRequest(authorized)
    \/ BanIP(Client, 0)
    \/ UnbanIP(Client)

SpecOrder == Init /\ [][NextOrder]_vars

\* The paths of a scan.
ScanPaths ==
    <<"admin", "backup", "config", "debug", "env", "git", "login", "phpmyadmin",
      "server-status", "shell", "wp-admin">>

\* The requests of the client in the list of pattern analysis.
Listed == IF Client \in DOMAIN requestPatterns THEN requestPatterns[Client].requests ELSE <<>>

\* The next path of the scan: the first one that is not in the list, as long
\* as no path of the list was requested twice.
FreshPaths ==
    LET fresh == {k \in 1..Len(ScanPaths) :
                    \A i \in 1..Len(Listed) : Listed[i].path # <<ScanPaths[k]>>}
    IN IF \E i, j \in 1..Len(Listed) : i < j /\ Listed[i].path = Listed[j].path
       THEN {}
       ELSE {<<ScanPaths[k]>> : k \in {k \in fresh : \A j \in fresh : k <= j}}

\* The sizes of the bursts in which the requests come.
BurstSizes == {0, 1, 5, 15}

\* The requests that came in this half minute.
BurstNow == Cardinality({i \in 1..Len(Listed) : Listed[i].timestamp = HalfMinuteClock})

\* One client, the clock in half minutes: requests in bursts, first for new
\* paths of the scan, then for its first path.
NextScan ==
    \/ \E path \in {<<ScanPaths[1]>>} \cup FreshPaths :
          /\ Len(Listed) < MaxScan
          /\ AnalyseRequest([ip |-> Client, method |-> "GET", path |-> path,
                             userAgent |-> <<"Mozilla/5.0">>, query |-> <<>>, body |-> <<>>])
    \/ BurstNow \in BurstSizes /\ HalfTick

SpecScan == Init /\ [][NextScan]_vars

\* The durations the 'finish' handler measures, in milliseconds.
FinishDurations == {12}

\* The statuses a response finishes with.
FinishStatuses == {200, 400, 403, 404, 429, 500}

\* One client, the clock stopped, every request with its analytics and its
\* 'finish' event: either requests for the ban endpoint up to the ban of the
\* strict limiter and other requests after it, or only requests for the
\* weather, for a style sheet and for the dashboard, benign or with a SQL
\* injection.
RequestsOfFinish ==
    [ip : {Client}, method : {"GET"}, path : {WeatherPath, StylePath},
     userAgent : {<<"Mozilla/5.0">>}, query : Entries("city", {Value(SqlInput)}),
     body : {<<>>}]
    \cup
    [ip : {Client}, method : {"GET"}, path : {StatsPath},
     userAgent : {<<"Mozilla/5.0">>}, query : {<<>>}, body : {<<>>}]

NextFinish ==
    \/ \E req \in RequestsOfStrict :
          /\ req.method = "POST"
          /\ timeline = <<>>
          /\ TrackedRequest(req)
    \/ \E req \in RequestsOfFinish :
          /\ metrics.total < MaxTotal
          /\ (req.path = StatsPath => rateWindows = EmptyMap)
          /\ <<"strict", Client>> \in DOMAIN rateWindows => Client \in DOMAIN bannedIPs
          /\ TrackedRequest(req)
    \/ ContinueRequest(TRUE)
    \/ \E statusCode \in FinishStatuses, ms \in FinishDurations : FinishRequest(statusCode, ms)

SpecFinish == Init /\ [][NextFinish]_vars

\* ------------------------------------------------------------------ claims

\* The sweep with its await: bans, violations and the clock before the sweep
\* and while it waits for its write.
SweepTypes == {"sql_injection"}

NextSweep ==
    \/ \E ip \in IPs, duration \in Durations :
          ip \notin DOMAIN bannedIPs /\ BanIP(ip, duration)
    \/ \E threatType \in SweepTypes :
          /\ Client \in DOMAIN suspiciousIPs => suspiciousIPs[Client].attempts < MaxSweepCalls
          /\ RecordSuspiciousActivity(Client, threatType)
    \/ Tick
    \/ SweepStart
    \/ SweepResume

SpecSweep == Init /\ [][NextSweep]_vars

\* The mutations of the ban table with their writes in flight.
NextWrites ==
    \/ \E ip \in IPs, duration \in Durations :
          Cardinality(writes) < MaxWrites /\ BanIPStart(ip, duration)
    \/ \E ip \in IPs : Cardinality(writes) < MaxWrites /\ UnbanIPStart(ip)
    \/ \E ip \in IPs : Cardinality(writes) < MaxWrites /\ IsBannedStart(ip)
    \/ Cardinality(writes) < MaxWrites /\ CleanExpiredBansStart
    \/ \E text \in writes : WriteFileEnd(text)
    \/ Tick

SpecWrites == Init /\ [][NextWrites]_vars

\* Startup with the administration at work: bans and unbans before the load
\* has finished, their writes in flight.
NextBoot ==
    \/ LoadBannedIPs
    \/ \E duration \in Durations :
          booting /\ Cardinality(writes) < MaxWrites /\ BanIPStart(Client, duration)
    \/ booting /\ lastOp.op # "unbanIP" /\ UnbanIPStart(Client)
    \/ \E text \in writes : WriteFileEnd(text)

SpecBoot == InitLoad /\ [][NextBoot]_vars

\* The suspicion record of one client under violations of a heavy and of a
\* light type, bans, unbans and sweeps; the clock advances while the record
\* is short.
HistoryTypes == {"sql_injection", "invalid_input"}

NextHistory ==
    \/ \E threatType \in HistoryTypes : RecordSuspiciousActivity(Client, threatType)
    \/ BanIP(Client, 0)
    \/ UnbanIP(Client)
    \/ CleanExpiredBans
    \/ /\ \A ip \in DOMAIN suspiciousIPs : suspiciousIPs[ip].attempts <= MaxSweepCalls
       /\ Tick

SpecHistory == Init /\ [][NextHistory]_vars

\* One client, the clock stopped, requests with and without a user agent on
\* paths the user-agent check covers and on paths it exempts, the client
\* banned or not.
HealthPath == <<"health">>

HealthzPath == <<"healthz">>

RequestsOfUserAgent ==
    [ip : {Client}, method : {"GET"},
     path : {WeatherPath, HealthPath, HealthzPath, StatsPath},
     userAgent : {<<>>, <<" ">>, <<"Mozilla/5.0">>},
     query : Entries("city", {Value(SqlInput)}),
     body : {<<>>}]

NextUserAgent ==
    \/ \E req \in RequestsOfUserAgent :
          /\ Client \in DOMAIN suspiciousIPs => suspiciousIPs[Client].attempts < MaxSweepCalls
          /\ HandleRequest(req)
    \/ \E authorized \in BOOLEAN : rateWindows = EmptyMap /\ ContinueRequest(authorized)
    \/ BanIP(Client, 0)
    \/ UnbanIP(Client)

SpecUserAgent == Init /\ [][NextUserAgent]_vars

\* The response times alone: the first samples of either value, then each
\* sample the number of its call, until the list has overflowed.
EarlyTimes == {10, 25}

CallsMade == IF lastOp.op = "recordResponseTime" THEN lastOp.arg[2] ELSE 0

NextSamples ==
    \/ \E ms \in EarlyTimes : CallsMade < MaxEarlySamples /\ RecordResponseTime(ms)
    \/ /\ CallsMade >= MaxEarlySamples
       /\ CallsMade < MaxSamples
       /\ RecordResponseTime(CallsMade + 1)

SpecSamples == Init /\ [][NextSamples]_vars

Visitor == "5.6.7.8"

\* Two clients under pattern analysis and its sweep, the clock in half
\* minutes; a third client is banned and a violation is recorded first, so
\* that the tables of the ban manager are not empty.
NextReclaim ==
    \/ \E ip \in {Client, Visitor} :
          /\ bannedIPs # EmptyMap /\ suspiciousIPs # EmptyMap
          /\ ip \in DOMAIN requestPatterns => Len(requestPatterns[ip].requests) < MaxPattern
          /\ AnalyseRequest([ip |-> ip, method |-> "GET", path |-> WeatherPath,
                             userAgent |-> <<"Mozilla/5.0">>, query |-> <<>>, body |-> <<>>])
    \/ SweepTick
    \/ bannedIPs = EmptyMap /\ HalfMinuteClock = 0 /\ BanIP("9.9.9.9", 0)
    \/ suspiciousIPs = EmptyMap /\ HalfMinuteClock = 0
          /\ RecordSuspiciousActivity("9.9.9.9", "xss")

SpecReclaim == Init /\ [][NextReclaim]_vars

\* The requests of ip that a limiter of the adaptive limiter has counted in
\* the window that is running now, 0 when the last window has elapsed.
AdaptiveCounted(w, tier, ip) ==
    IF <<tier, ip>> \in DOMAIN w /\ now - w[<<tier, ip>>].windowStart < ADAPTIVE_WINDOW_MINUTES
    THEN w[<<tier, ip>>].count
    ELSE 0

\* One client under the adaptive limiter: requests in bursts, time passing
\* before the first request and after a 429, and an injection attempt
\* recorded at any moment for a client without a suspicion record.
NextAdaptive ==
    \/ /\ AdaptiveRequest(Client)
       /\ AdaptiveCounted(rateWindows', "normal", Client) <= MaxNormalHits
       /\ AdaptiveCounted(rateWindows', "suspect", Client) <= MaxSuspectHits
    \/ /\ lastOp.op \in {"init", "tick"} \/ response.status = 429
       /\ WindowTick
    \/ /\ Client \notin DOMAIN suspiciousIPs
       /\ Client \notin DOMAIN bannedIPs
       /\ RecordSuspiciousActivity(Client, "sql_injection")

SpecAdaptive == Init /\ [][NextAdaptive]_vars

\* isBanned(ip) as a check made now would answer, without its side effect.
Banned(ip) == isBannedResult(Tables, ip, now)

\* The suspicion record of ip before a step: attempts and score, 0 when absent.
AttemptsOf(ip) == IF ip \in DOMAIN suspiciousIPs THEN suspiciousIPs[ip].attempts ELSE 0

ScoreOf(ip) == IF ip \in DOMAIN suspiciousIPs THEN suspiciousIPs[ip].score ELSE 0

\* Every entry of the threat history of ip has this type (true of no history).
OnlyThreats(ip, threatType) ==
    ip \in DOMAIN suspiciousIPs =>
        \A e \in BagToSet(suspiciousIPs[ip].threats) : e.type = threatType

\* C1: in every reachable state no client is a key of the suspicion table and
\* of the ban table at the same time.
C1_NeverSuspectAndBanned == (DOMAIN bannedIPs) \cap (DOMAIN suspiciousIPs) = {}

C4_PromotionInTheSameCall ==
    (lastOp.op = "recordSuspiciousActivity" /\ lastOp.ret = TRUE) =>
        /\ lastOp.ip \in DOMAIN bannedIPs
        /\ bannedIPs[lastOp.ip].bannedAt = now
        /\ bannedIPs[lastOp.ip].expiresAt = <<now + 60>>
        /\ Banned(lastOp.ip)
        /\ lastOp.ip \notin DOMAIN suspiciousIPs

\* C4 witness: a call made one hour after the start has returned true.
C4_Witness ==
    /\ lastOp.op = "recordSuspiciousActivity"
    /\ lastOp.ret = TRUE
    /\ now = TickMinutes
    /\ lastOp.ip \in DOMAIN bannedIPs
    /\ bannedIPs[lastOp.ip].reason = <<"Automatic ban", 6, 300>>

\* C5: no client is banned at the start, and isBanned(X) goes from false to
\* true only in a step that is banIP(X, ...) or a recordSuspiciousActivity(X, ...)
\* returning true: never in an operation on another client.
C5_BannedOnlyByOwnBan ==
    /\ \A x \in IPs : ~Banned(x)
    /\ [][\A x \in IPs :
            (~Banned(x) /\ isBannedResult([b |-> bannedIPs', s |-> suspiciousIPs'], x, now'))
                => /\ lastOp'.ip = x
                   /\ \/ lastOp'.op = "banIP"
                      \/ lastOp'.op = "recordSuspiciousActivity" /\ lastOp'.ret = TRUE
       ]_vars

\* C5 witness: one client has just been banned by crossing a threshold while
\* the other one, under suspicion, is not banned.
C5_Witness ==
    /\ lastOp.op = "recordSuspiciousActivity"
    /\ lastOp.ret = TRUE
    /\ lastOp.ip = "9.9.9.9"
    /\ Banned("9.9.9.9")
    /\ "1.2.3.4" \in DOMAIN suspiciousIPs
    /\ ~Banned("1.2.3.4")

\* C6: banIP with a duration D > 0 at time T makes a record with bannedAt = T
\* and expiresAt = T + D; a check isBanned of a client whose record expires at
\* E answers true and keeps the record while now <= E, and answers false and
\* removes the record (the client is no longer in getAllBanned()) once now > E.
C6_TemporaryBanExpires ==
    /\ [][(lastOp'.op = "banIP" /\ lastOp'.arg[1] > 0) =>
            /\ lastOp'.ip \in DOMAIN bannedIPs'
            /\ bannedIPs'[lastOp'.ip].bannedAt = now
            /\ bannedIPs'[lastOp'.ip].expiresAt = <<now + lastOp'.arg[1]>>
       ]_vars
    /\ [][(lastOp'.op = "isBanned" /\ lastOp'.ip \in DOMAIN bannedIPs
              /\ bannedIPs[lastOp'.ip].expiresAt # <<>>) =>
            LET ip == lastOp'.ip
                E == bannedIPs[ip].expiresAt[1]
            IN /\ now <= E => /\ lastOp'.ret = TRUE
                              /\ ip \in DOMAIN bannedIPs'
                              /\ bannedIPs'[ip] = bannedIPs[ip]
               /\ now > E => /\ lastOp'.ret = FALSE
                             /\ ip \notin getAllBanned([b |-> bannedIPs', s |-> suspiciousIPs'])
       ]_vars

\* C6 witness: a check made after the expiry of a 60-minute ban issued at
\* time 0 has answered false and removed the record.
C6_Witness ==
    /\ lastOp.op = "isBanned"
    /\ lastOp.ret = FALSE
    /\ lastOp.before # <<>>
    /\ lastOp.before[1].bannedAt = 0
    /\ lastOp.before[1].expiresAt = <<60>>
    /\ now > 60
    /\ lastOp.ip \notin DOMAIN bannedIPs

C8_UnbanIdempotent ==
    [][lastOp'.op = "unbanIP" =>
        LET ip == lastOp'.ip
        IN /\ lastOp'.ret = (ip \in DOMAIN bannedIPs)
           /\ ~isBannedResult([b |-> bannedIPs', s |-> suspiciousIPs'], ip, now')
           /\ DOMAIN bannedIPs' = (DOMAIN bannedIPs) \ {ip}
           /\ \A y \in DOMAIN bannedIPs' : bannedIPs'[y] = bannedIPs[y]
           /\ suspiciousIPs' = suspiciousIPs
           /\ ip \notin DOMAIN bannedIPs => (lastOp'.ret = FALSE /\ bannedIPs' = bannedIPs)
    ]_vars

\* C8 witness: unbanIP has returned false for a client under suspicion that
\* has no ban, while the other client is banned.
C8_Witness ==
    /\ lastOp.op = "unbanIP"
    /\ lastOp.ret = FALSE
    /\ lastOp.ip = "1.2.3.4"
    /\ "1.2.3.4" \in DOMAIN suspiciousIPs
    /\ "9.9.9.9" \in DOMAIN bannedIPs

\* The stages that ran for the last request, as a set.
StagesRun == {response.stages[i] : i \in 1..Len(response.stages)}

\* The client of the last request had, when the request arrived, a ban record
\* that had not expired.
BannedOnArrival ==
    /\ lastOp.op = "request"
    /\ lastOp.before # <<>>
    /\ ~(lastOp.before[1].expiresAt # <<>> /\ lastOp.before[1].expiresAt[1] < now)

\* C2, as stated: a request of a client with a non-expired ban record is
\* answered 403 at the ban check, whatever its path, and no later stage runs.
C2_BannedRejectedOnEveryPath ==
    BannedOnArrival =>
        /\ response.status = 403
        /\ response.stages = <<"banCheck">>
        /\ response.calls = <<>>

\* C2, amended: a request of a client with a non-expired ban record whose path
\* does not start with /api/security/unban/, /api/security/stats,
\* /api/security/events, /api/security/banned-ips or /api/security/suspicious-ips
\* is answered 403 at the ban check and no later stage runs; on these five
\* prefixes the ban check lets the request through to the later stages.
C2_BannedRejectedOffWhitelist ==
    BannedOnArrival =>
        LET path == response.path
            exempt == \/ (Len(path) > 3 /\ SubSeq(path, 1, 3) = <<"api", "security", "unban">>)
                      \/ (Len(path) >= 3 /\ SubSeq(path, 1, 2) = <<"api", "security">>
                             /\ path[3] \in {"stats", "events", "banned-ips", "suspicious-ips"})
        IN IF exempt
           THEN Len(response.stages) >= 2 /\ response.stages[2] = "patternAnalysis"
           ELSE /\ response.status = 403
                /\ response.stages = <<"banCheck">>
                /\ response.calls = <<>>

\* C2 witness: a request for /api/weather made at the very minute a 60-minute
\* ban issued at time 0 expires has been answered 403 at the ban check.
C2_Witness ==
    /\ BannedOnArrival
    /\ response.path = WeatherPath
    /\ lastOp.before[1].expiresAt = <<60>>
    /\ now = 60
    /\ response.status = 403
    /\ response.stages = <<"banCheck">>

\* C9: when the attack detection stage runs on a request and finds a threat in
\* a string value of the query or of the body, it calls recordSuspiciousActivity
\* exactly once, with the type of the first threat found (query before body,
\* categories in the order sql_injection, xss, path_traversal,
\* command_injection, ldap_injection); the request is not passed on and the
\* response is 403 if that call returned true and 400 otherwise.  With no
\* threat found the stage makes no call and passes the request on.
C9_FirstThreatRecordedOnce ==
    (lastOp.op = "request" /\ "attackDetection" \in StagesRun) =>
        LET values == [i \in 1..(Len(response.query) + Len(response.body)) |->
                          IF i <= Len(response.query) THEN response.query[i].value
                          ELSE response.body[i - Len(response.query)].value]
            typesIn(v) == IF v.isString
                          THEN {ATTACK_PATTERNS[k].type : k \in
                                   {k \in 1..Len(ATTACK_PATTERNS) :
                                       \E j \in 1..Len(ATTACK_PATTERNS[k].patterns) :
                                           RegexTest(ATTACK_PATTERNS[k].patterns[j], v.text)}}
                          ELSE {}
            hits == {i \in DOMAIN values : typesIn(values[i]) # {}}
            calls == SelectSeq(response.calls, LAMBDA c : c.stage = "attackDetection")
        IN IF hits = {}
           THEN /\ calls = <<>>
                /\ response.status = 0
                /\ "next" \in StagesRun
           ELSE LET first == CHOOSE i \in hits : \A j \in hits : i <= j
                    taxonomy == <<"sql_injection", "xss", "path_traversal",
                                  "command_injection", "ldap_injection">>
                    ranks == {k \in 1..Len(taxonomy) : taxonomy[k] \in typesIn(values[first])}
                    rank == CHOOSE k \in ranks : \A j \in ranks : k <= j
                IN /\ Len(calls) = 1
                   /\ calls[1].type = taxonomy[rank]
                   /\ "next" \notin StagesRun
                   /\ response.status = (IF calls[1].ret THEN 403 ELSE 400)
                   /\ calls[1].ret => response.ip \in DOMAIN bannedIPs

\* C9 witness: a request with a script element in its query and a SQL
\* injection in its body has been recorded once, as xss, by a call that
\* returned true, and answered 403.
C9_Witness ==
    /\ lastOp.op = "request"
    /\ response.query = <<[key |-> "city", value |-> Value(XssInput)]>>
    /\ response.body = <<[key |-> "note", value |-> Value(SqlInput)]>>
    /\ response.calls = <<[stage |-> "attackDetection", type |-> "xss", ret |-> TRUE]>>
    /\ response.status = 403

\* C10: a request during which a call of recordSuspiciousActivity has returned
\* true, whichever stage made the call, is answered 403 and is not passed on
\* to the application.
C10_AutoBannedRequestRejected ==
    (lastOp.op = "request" /\ \E i \in 1..Len(response.calls) : response.calls[i].ret) =>
        /\ response.status = 403
        /\ "next" \notin StagesRun

\* The requests of ip that the moderate limiter has counted in the 15-minute
\* window that is running now: 0 when the last window has elapsed.
ModerateCounted(ip) ==
    LET key == <<"moderate", ip>>
    IN IF key \in DOMAIN rateWindows /\ now - rateWindows[key].windowStart < 15
       THEN rateWindows[key].count
       ELSE 0

StrictCounted(ip) ==
    LET key == <<"strict", ip>>
    IN IF key \in DOMAIN rateWindows /\ now - rateWindows[key].windowStart < 60
       THEN rateWindows[key].count
       ELSE 0

\* C12: a request that the strict limiter (ban and unban endpoints) counts as
\* the 21st or a later one of its client in the running 60-minute window is
\* answered 429 and bans the client through banIP for 120 minutes without any
\* recordSuspiciousActivity call: when the response is sent the ban record is
\* there, isBanned(client) is true and the client has no suspicion record.  Up
\* to the 20th the request is passed on and the tables are untouched.
C12_StrictBansDirectly ==
    [][(/\ lastOp'.op = "limiter"
        /\ Len(response'.stages) > 0
        /\ \E i \in 1..Len(response'.stages) : response'.stages[i] = "strictLimiter") =>
        LET ip == response.ip
            stages == response'.stages
            after == [b |-> bannedIPs', s |-> suspiciousIPs']
        IN /\ response'.calls = response.calls
           /\ IF StrictCounted(ip) < 20
              THEN /\ response'.status = 0
                   /\ stages[Len(stages)] = "route"
                   /\ bannedIPs' = bannedIPs
                   /\ suspiciousIPs' = suspiciousIPs
              ELSE /\ response'.status = 429
                   /\ stages[Len(stages)] = "strictLimiter"
                   /\ ip \in DOMAIN bannedIPs'
                   /\ bannedIPs'[ip].reason = <<"Excessive requests to sensitive endpoint">>
                   /\ bannedIPs'[ip].bannedAt = now
                   /\ bannedIPs'[ip].expiresAt = <<now + 120>>
                   /\ bannedIPs'[ip].attempts = AttemptsOf(ip) + 1
                   /\ isBannedResult(after, ip, now')
                   /\ ip \notin DOMAIN suspiciousIPs'
    ]_vars

\* C12 witness: the 21st request of the window has been answered 429 and has
\* banned a client that had a suspicion record of two attempts.
C12_Witness ==
    /\ lastOp.op = "limiter"
    /\ response.status = 429
    /\ response.stages[Len(response.stages)] = "strictLimiter"
    /\ rateWindows[<<"strict", Client>>].count = 21
    /\ Client \in DOMAIN bannedIPs
    /\ bannedIPs[Client].attempts = 3
    /\ bannedIPs[Client].expiresAt = <<now + 120>>
    /\ Client \notin DOMAIN suspiciousIPs

\* isBanned(ip) as a check made right after the step would answer.
BannedAfter(ip) == isBannedResult([b |-> bannedIPs', s |-> suspiciousIPs'], ip, now')

\* C13: a client stops being banned only in a step that is unbanIP of this
\* client or the passage of time past the expiry of its ban, and right after
\* that step it has no suspicion record.
C13_BannedToClean ==
    [][\A x \in IPs :
        (Banned(x) /\ ~BannedAfter(x)) =>
            /\ \/ lastOp'.op = "unbanIP" /\ lastOp'.ip = x
               \/ /\ lastOp'.op = "tick"
                  /\ bannedIPs[x].expiresAt # <<>>
                  /\ bannedIPs[x].expiresAt[1] < now'
            /\ x \notin DOMAIN suspiciousIPs'
    ]_vars

\* The reason, bannedAt and expiresAt of a ban record.
BanTerms(info) ==
    [reason |-> info.reason, bannedAt |-> info.bannedAt, expiresAt |-> info.expiresAt]

\* C14: as long as a client keeps a ban record, the reason, bannedAt and
\* expiresAt of the record stay what they were: a later ban of the same
\* client (manual, strict limiter or automatic) leaves the record unchanged.
C14_BanRecordFrozen ==
    [][\A x \in IPs :
        (Banned(x) /\ BannedAfter(x)) => BanTerms(bannedIPs'[x]) = BanTerms(bannedIPs[x])
    ]_vars

\* C15: while a client keeps its suspicion record, no operation lowers the
\* score or the attempts of the record; the record goes away only whole, by
\* a ban of the client or by the sweep once it has been idle for an hour.
C15_ScoreNeverDecreases ==
    [][\A x \in IPs :
        x \in DOMAIN suspiciousIPs =>
            IF x \in DOMAIN suspiciousIPs'
            THEN /\ suspiciousIPs'[x].score >= suspiciousIPs[x].score
                 /\ suspiciousIPs'[x].attempts >= suspiciousIPs[x].attempts
            ELSE \/ /\ lastOp'.op \in {"banIP", "recordSuspiciousActivity"}
                    /\ lastOp'.ip = x
                    /\ BannedAfter(x)
                 \/ /\ lastOp'.op = "cleanExpiredBans"
                    /\ suspiciousIPs[x].lastAttempt < now - SUSPICION_IDLE_MINUTES
    ]_vars

\* A second call, an hour after the first, has added to the record of the first.
C15_Witness ==
    /\ lastOp.op = "recordSuspiciousActivity"
    /\ Client \in DOMAIN suspiciousIPs
    /\ suspiciousIPs[Client].attempts >= 2
    /\ \E th \in DOMAIN suspiciousIPs[Client].threats : th.timestamp < now

\* The weight the weight table gives a threat type.
WeightOf(type) ==
    CASE type = "sql_injection" -> 50
      [] type = "path_traversal" -> 45
      [] type = "xss" -> 40
      [] type = "rate_limit" -> 10
      [] type = "invalid_input" -> 5
      [] OTHER -> 15

\* C16: every recordSuspiciousActivity(id, type) call adds exactly 1 to the
\* attempts and exactly the weight of the type to the score of the record of
\* id (50 sql_injection, 45 path_traversal, 40 xss, 10 rate_limit,
\* 5 invalid_input, 15 any other type or none); when the call bans, the sums
\* are the ones the ban reason reports.
C16_AddsOneAndTheWeight ==
    [][lastOp'.op = "recordSuspiciousActivity" =>
        LET ip == lastOp'.ip
            attempts == AttemptsOf(ip) + 1
            score == ScoreOf(ip) + WeightOf(lastOp'.arg[1])
        IN IF lastOp'.ret
           THEN /\ ip \in DOMAIN bannedIPs'
                /\ bannedIPs'[ip].reason = <<"Automatic ban", attempts, score>>
           ELSE /\ ip \in DOMAIN suspiciousIPs'
                /\ suspiciousIPs'[ip].attempts = attempts
                /\ suspiciousIPs'[ip].score = score
    ]_vars

\* An ldap_injection call after an xss call: 2 attempts, score 40 + 15.
C16_Witness ==
    /\ lastOp.op = "recordSuspiciousActivity"
    /\ lastOp.arg = <<"ldap_injection">>
    /\ Client \in DOMAIN suspiciousIPs
    /\ suspiciousIPs[Client].attempts = 2
    /\ suspiciousIPs[Client].score = 55

C18_WriteFailureContained ==
    [][disk = "failing" =>
        LET ip == lastOp'.ip
            expiredBefore(x) == /\ x \in DOMAIN bannedIPs
                                /\ bannedIPs[x].expiresAt # <<>>
                                /\ bannedIPs[x].expiresAt[1] < now
        IN /\ ~raised'
           /\ lastOp'.op = "banIP" =>
                 /\ lastOp'.ret
                 /\ BannedAfter(ip)
                 /\ bannedIPs'[ip].expiresAt = banExpiresAt(lastOp'.arg[1], now)
           /\ (lastOp'.op = "unbanIP" /\ ip \in DOMAIN bannedIPs) =>
                 (lastOp'.ret /\ ip \notin DOMAIN bannedIPs')
           /\ (lastOp'.op = "isBanned" /\ expiredBefore(ip)) =>
                 (~lastOp'.ret /\ ip \notin DOMAIN bannedIPs')
           /\ lastOp'.op = "cleanExpiredBans" =>
                 \A x \in IPs : expiredBefore(x) => x \notin DOMAIN bannedIPs'
           /\ lastOp'.op = "request" =>
                 /\ response'.status \in {0, 400, 403}
                 /\ expiredBefore(ip) =>
                       (ip \in DOMAIN bannedIPs' => bannedIPs'[ip] # bannedIPs[ip])
                 /\ (\E i \in 1..Len(response'.calls) : response'.calls[i].ret) =>
                       (response'.status = 403 /\ BannedAfter(ip))
    ]_vars

\* A manual ban made while the storage rejects writes: the client is banned
\* and the file has never been written.
C18_Witness ==
    /\ disk = "failing"
    /\ lastOp.op = "banIP"
    /\ isBannedResult(Tables, Client, now)
    /\ storage = <<>>

\* A request whose sixth violation bans the client while the storage rejects
\* writes: it is answered 403 and the file does not hold the ban.
C18_WitnessRequest ==
    /\ disk = "failing"
    /\ lastOp.op = "request"
    /\ response.status = 403
    /\ \E i \in 1..Len(response.calls) : response.calls[i].ret
    /\ storage # <<stringify(bannedIPs)>>

\* The members of the file, none when there is no file.
MembersOf(file) == IF file = <<>> THEN <<>> ELSE file[1].members

\* The file is missing, or a JSON object whose members are all ban records.
WellFormed(file) ==
    \/ file = <<>>
    \/ /\ file[1].json = "object"
       /\ \A i \in 1..Len(file[1].members) : file[1].members[i].value.kind = "object"

\* C19: the load of a missing file or of a file of ban records logs no error;
\* it sets in the ban table exactly the entries whose expiresAt is null or
\* later than the time of the load, as they are in the file, and leaves
\* every other client as it was: an entry that has expired is discarded and
\* a missing file loads nothing.
C19_LoadKeepsLiveEntries ==
    [][(lastOp'.op = "loadBannedIPs" /\ WellFormed(storage)) =>
        LET members == MembersOf(storage)
            live(i) == \/ members[i].value.info.expiresAt = <<>>
                       \/ members[i].value.info.expiresAt[1] > now
        IN /\ ~lastOp'.ret
           /\ \A i \in 1..Len(members) :
                 live(i) => /\ members[i].key \in DOMAIN bannedIPs'
                            /\ bannedIPs'[members[i].key] = members[i].value.info
           /\ \A x \in IPs :
                 (\A i \in 1..Len(members) : members[i].key = x => ~live(i)) =>
                    /\ x \in DOMAIN bannedIPs' <=> x \in DOMAIN bannedIPs
                    /\ x \in DOMAIN bannedIPs => bannedIPs'[x] = bannedIPs[x]
    ]_vars

\* A load at time 60 of a file with an entry that expired at 60 and an entry
\* that expires at 120: only the second is in the table.
C19_Witness ==
    /\ lastOp.op = "loadBannedIPs"
    /\ now = 60
    /\ Len(MembersOf(storage)) = 2
    /\ \E i \in 1..2 :
          /\ storage[1].members[i].value.kind = "object"
          /\ storage[1].members[i].value.info.expiresAt = <<60>>
          /\ storage[1].members[i].key \notin DOMAIN bannedIPs
    /\ \E i \in 1..2 :
          /\ storage[1].members[i].value.kind = "object"
          /\ storage[1].members[i].value.info.expiresAt = <<120>>
          /\ storage[1].members[i].key \in DOMAIN bannedIPs

\* C20: the load of a malformed file (text that is no JSON, a top-level value
\* that is no object, an object with a member that is no ban record) logs an
\* error and puts nothing in the ban table.
C20_MalformedLoadsNothing ==
    [][(lastOp'.op = "loadBannedIPs" /\ ~WellFormed(storage)) =>
        (lastOp'.ret /\ bannedIPs' = bannedIPs)
    ]_vars

\* C21: a request to POST /ban or POST /unban/:ip whose client id is missing,
\* empty or no address, or whose duration is negative, is answered 400 and
\* leaves the ban table as it was.
C21_InvalidAdminInputRejected ==
    [][(/\ lastOp'.op \in {"POST /ban", "POST /unban"}
        /\ \/ lastOp'.ip \notin IPs
           \/ /\ lastOp'.op = "POST /ban"
              /\ lastOp'.arg[1] # <<>>
              /\ lastOp'.arg[1][1] < 0) =>
        (response'.status = 400 /\ ~lastOp'.ret /\ bannedIPs' = bannedIPs)
    ]_vars

\* C22: every recordRequest and recordThreat call puts its event at the end
\* of the timeline, keeps the events before it in their order and drops only
\* the oldest one, and only when the timeline would exceed 500 events, so
\* that the timeline holds the 500 most recently added events at most; once
\* more than 500 requests have been recorded getRecentEvents(500) returns 500
\* events, the timeline from its newest event to its oldest.
C22_TimelineKeepsTheNewest ==
    [][/\ lastOp'.op \in {"recordRequest", "recordThreat"} =>
            LET n == Len(timeline')
                dropped == Len(timeline) + 1 - n
            IN /\ n = IF Len(timeline) + 1 > 500 THEN 500 ELSE Len(timeline) + 1
               /\ timeline'[n].timestamp = now
               /\ timeline'[n].type =
                     IF lastOp'.op = "recordThreat" THEN "threat"
                     ELSE IF lastOp'.arg[1] THEN "blocked"
                     ELSE IF lastOp'.arg[2] THEN "suspicious" ELSE "normal"
               /\ \A i \in 1..(n - 1) : timeline'[i] = timeline[i + dropped]
       /\ (lastOp'.op = "getRecentEvents" /\ lastOp'.arg = <<500>> /\ metrics.total > 500) =>
            /\ Len(lastOp'.ret) = 500
            /\ Len(timeline) = 500
            /\ \A i \in 1..500 : lastOp'.ret[i] = timeline[501 - i]
    ]_vars

\* More than 500 requests have been recorded after a first event that was a
\* threat: the timeline is full, the threat is gone, and getRecentEvents(500)
\* has returned 500 events.
C22_Witness ==
    /\ lastOp.op = "getRecentEvents"
    /\ metrics.total > 500
    /\ metrics.threats["xss"] > 0
    /\ Len(timeline) = 500
    /\ \A i \in 1..Len(timeline) : timeline[i].type # "threat"
    /\ Len(lastOp.ret) = 500

\* The list is the n newest events of the timeline, the newest first.
NewestFirst(list, n) ==
    /\ Len(list) = n
    /\ \A i \in 1..n : list[i] = timeline[Len(timeline) + 1 - i]

\* C23: getRecentEvents(limit) returns, for every integer limit, the
\* min(limit, length of the timeline) newest events, the newest first, and
\* GET /events?limit=N does so for the integer N it is given.
C23_AtMostLimitEvents ==
    /\ lastOp.op = "getRecentEvents" =>
          NewestFirst(lastOp.ret,
                      IF lastOp.arg[1] < Len(timeline) THEN lastOp.arg[1]
                      ELSE Len(timeline))
    /\ (lastOp.op = "GET /events"
            /\ lastOp.arg[1] \in {<<"2">>, <<"0">>, <<"-1">>, <<"600">>}) =>
          LET N == CASE lastOp.arg[1] = <<"2">> -> 2
                     [] lastOp.arg[1] = <<"0">> -> 0
                     [] lastOp.arg[1] = <<"-1">> -> -1
                     [] lastOp.arg[1] = <<"600">> -> 600
          IN NewestFirst(lastOp.ret, IF N < Len(timeline) THEN N ELSE Len(timeline))

\* C24: in every reachable state no event of the timeline is older than 24
\* hours.
C24_NoEventOlderThanADay ==
    \A i \in 1..Len(timeline) : now - timeline[i].timestamp <= RETENTION_MINUTES

\* The paths the 'finish' handler leaves out of the analytics.
NotTracked(path) ==
    \/ \E e \in dashboardEndpoints : StartsWith(path, e)
    \/ isStaticFile(path)

TagOf(status) ==
    IF status = 403 THEN "blocked"
    ELSE IF status \in {400, 429} THEN "suspicious" ELSE "normal"

Named(threats) ==
    [k \in 1..Len(threats) |-> [type |-> threats[k].type, pattern |-> threats[k].pattern,
                                paramName |-> threats[k].paramName]]

\* C26: a call detectThreats(s, f) returns the list of threats (types,
\* patterns, matched texts, order) that the first call of the process returns
\* for s and f, whatever calls were made before it, so two calls with the same
\* arguments return the same list; every call leaves the lastIndex of every
\* shared pattern at 0. After any sequence of calls, the list the last call
\* returned is the list of a call made with every lastIndex at 0.
C26_DetectThreatsDeterministic ==
    lastOp.op = "detectThreats" =>
        /\ lastOp.ret = detectThreatsCall(ZeroIndex, lastOp.arg[1], lastOp.arg[2]).threats
        /\ Named(lastOp.ret) = detectThreats(lastOp.arg[1], lastOp.arg[2])
        /\ lastIndex = ZeroIndex

\* A call on the SQL injection has returned the threat found by sql3, a
\* pattern that matches the value at four positions.
C26_Witness ==
    /\ lastOp.op = "detectThreats"
    /\ lastOp.arg[1] = Value(SqlInput)
    /\ Len(lastOp.ret) = 1
    /\ lastOp.ret[1].pattern = "sql3"
    /\ lastOp.ret[1].match = <<<<"sql3", SqlInput, 1, 2>>>>
    /\ lastIndex = ZeroIndex

\* C27: when requests of one client are in flight together, each with a
\* violation to record, every recordSuspiciousActivity call works on what the
\* calls before it have left: before the k-th call since the last ban the
\* record holds k - 1 attempts and the sum of the k - 1 weights, the call
\* either leaves k attempts and the sum of the k weights without touching the
\* bans, or, when one of the two sums reaches its threshold, bans the client
\* with these sums as reason and returns true.  No call is lost and no record
\* stays at or above a threshold.
C27_InFlightCallsAtomic ==
    [][(lastOp'.op = "recordSuspiciousActivity" /\ inFlight' # inFlight) =>
         LET ip == lastOp'.ip
             k == inFlight.recorded + 1
             sum == inFlight.weights + WeightOf(lastOp'.arg[1])
         IN /\ AttemptsOf(ip) = inFlight.recorded
            /\ ScoreOf(ip) = inFlight.weights
            /\ IF sum >= BAN_THRESHOLD_SCORE \/ k >= BAN_THRESHOLD_ATTEMPTS
               THEN /\ lastOp'.ret
                    /\ ip \in DOMAIN bannedIPs'
                    /\ bannedIPs'[ip].reason = <<"Automatic ban", k, sum>>
                    /\ ip \notin DOMAIN suspiciousIPs'
               ELSE /\ ~lastOp'.ret
                    /\ bannedIPs' = bannedIPs
                    /\ ip \in DOMAIN suspiciousIPs'
                    /\ suspiciousIPs'[ip].attempts = k
                    /\ suspiciousIPs'[ip].score = sum
      ]_vars

\* A call has banned the client while a request that arrived at least three
\* calls earlier is still in flight with its violation.
C27_Witness ==
    /\ lastOp.op = "recordSuspiciousActivity"
    /\ lastOp.ret
    /\ BagCardinality(inFlight.pending) = 1
    /\ \E entry \in BagToSet(inFlight.pending) :
          /\ Client \in DOMAIN entry.seen
          /\ entry.seen[Client].attempts <= 3

\* The stages in the order in which the server mounts them.
StageOrder ==
    <<"banCheck", "patternAnalysis", "noUserAgent", "suspiciousUserAgent",
      "attackDetection", "next", "moderateLimiter", "dashboardLimiter", "dashboardAuth",
      "strictLimiter", "route">>

RankOf(stage) == CHOOSE k \in 1..Len(StageOrder) : StageOrder[k] = stage

LimiterOf(key) ==
    CASE key[1] = "moderate" -> "moderateLimiter"
      [] key[1] = "dashboard" -> "dashboardLimiter"
      [] key[1] = "strict" -> "strictLimiter"

CountOf(w, key) == IF key \in DOMAIN w THEN w[key].count ELSE 0

\* C28: the stages a request goes through are in the order ban check,
\* pattern analysis, user-agent checks, threat detection, rate limiters, and a
\* stage that answers is the last one of the request.  A rate-limit window
\* changes only by the limiter of the window counting, once, a request that
\* every stage before this limiter has passed on: a request answered by the
\* ban check, a user-agent check, threat detection, or, for the strict
\* limiter, the dashboard limiter or dashboardAuth, leaves the window as it
\* was.
C28_RejectedBeforeLimiterNotCounted ==
    [][/\ lastOp'.op \in {"request", "limiter"} =>
            /\ \A i, j \in 1..Len(response'.stages) :
                  i < j => RankOf(response'.stages[i]) < RankOf(response'.stages[j])
            /\ response'.status # 0 =>
                  response'.stages[Len(response'.stages)] \notin {"next", "route"}
       /\ (lastOp'.op = "request" /\ response' # response) => rateWindows' = rateWindows
       /\ \A key \in DOMAIN rateWindows' :
             (key \notin DOMAIN rateWindows \/ rateWindows'[key] # rateWindows[key]) =>
                /\ lastOp'.op = "limiter"
                /\ response.status = 0
                /\ \E k \in 1..Len(response'.stages) :
                      /\ response'.stages[k] = LimiterOf(key)
                      /\ k = Len(response'.stages) \/ response'.status = 0
                         \/ response'.stages[Len(response'.stages)]
                               \notin {"banCheck", "noUserAgent", "suspiciousUserAgent",
                                       "attackDetection"}
                /\ \/ rateWindows'[key].count = CountOf(rateWindows, key) + 1
                   \/ rateWindows'[key].count = 1
                /\ \A i \in 1..Len(response.stages) :
                      response.stages[i] \in {"banCheck", "patternAnalysis", "noUserAgent",
                                              "suspiciousUserAgent", "attackDetection", "next"}
      ]_vars

\* A request with a SQL injection was answered 400 by threat detection after
\* an earlier request of the client was counted by the moderate limiter, and
\* the count is still 1.
C28_Witness ==
    /\ lastOp.op = "request"
    /\ response.status = 400
    /\ response.stages[Len(response.stages)] = "attackDetection"
    /\ <<"moderate", Client>> \in DOMAIN rateWindows
    /\ rateWindows[<<"moderate", Client>>].count = 1
    /\ rateWindows[<<"moderate", Client>>].windowStart = now

\* C29: the requests that pattern analysis has counted for a client are of
\* the last minute: none of them is older than one minute.
C29_OnlyLastMinuteCounted ==
    lastOp.op = "patternAnalysis" =>
        \A i \in 1..Len(Listed) : HalfMinuteClock - Listed[i].timestamp <= 2

\* The scan escalations of the last request.
ScanCalls == {k \in 1..Len(response.calls) : response.calls[k].type = "path_traversal"}

\* The requests of the list that are of the last minute.
LastMinute == {i \in 1..Len(Listed) : HalfMinuteClock - Listed[i].timestamp <= 2}

\* C30: pattern analysis escalates a scan, with one recordSuspiciousActivity
\* call, on a request exactly when the requests of the client in the last
\* minute, this one included, are more than 20 and their distinct paths more
\* than 10.
C30_ScanIffBothExceeded ==
    lastOp.op = "patternAnalysis" =>
        /\ Cardinality(ScanCalls) <= 1
        /\ Cardinality(ScanCalls) = 1 <=>
              /\ Cardinality({Listed[i].path : i \in LastMinute}) > SCAN_PATHS
              /\ Cardinality(LastMinute) > SCAN_REQUESTS


\* C31: when a sweep has completed, no ban record of the table expired before
\* the time of the sweep and no suspicion record has been idle for more than
\* one hour; the sweep left every ban record that had not expired (a permanent
\* one included) and every suspicion record active within the last hour as it
\* was, its first loop did not touch the suspicion table nor its second loop
\* the ban table; and when it removed a ban, the file holds the ban table as
\* the sweep left it.
C31_SweepRemovesOnlyTheStale ==
    lastOp.op = "cleanExpiredBans" =>
        /\ \A ip \in DOMAIN bannedIPs :
              bannedIPs[ip].expiresAt = <<>> \/ bannedIPs[ip].expiresAt[1] >= sweeping.at
        /\ \A ip \in DOMAIN suspiciousIPs :
              now - suspiciousIPs[ip].lastAttempt <= SUSPICION_IDLE_MINUTES
        /\ \A ip \in DOMAIN sweeping.before.b :
              (sweeping.before.b[ip].expiresAt = <<>>
                 \/ sweeping.before.b[ip].expiresAt[1] >= sweeping.at)
              => /\ ip \in DOMAIN sweeping.kept.b
                 /\ sweeping.kept.b[ip] = sweeping.before.b[ip]
        /\ sweeping.kept.s = sweeping.before.s
        /\ \A ip \in DOMAIN sweeping.resumed.s :
              now - sweeping.resumed.s[ip].lastAttempt <= SUSPICION_IDLE_MINUTES
              => /\ ip \in DOMAIN suspiciousIPs
                 /\ suspiciousIPs[ip] = sweeping.resumed.s[ip]
        /\ bannedIPs = sweeping.resumed.b
        /\ sweeping.removed > 0 => storage = <<stringify(sweeping.kept.b)>>
        /\ sweeping.removed = 0 =>
              sweeping.kept.b = sweeping.before.b /\ sweeping.resumed = sweeping.kept

\* A sweep that waited for its write has completed: it removed an expired
\* ban, and left a permanent ban and a suspicion record whose last attempt is
\* one hour old.
C31_Witness ==
    /\ lastOp.op = "cleanExpiredBans"
    /\ sweeping.removed > 0
    /\ \E ip \in DOMAIN sweeping.before.b : ip \notin DOMAIN bannedIPs
    /\ \E ip \in DOMAIN bannedIPs : bannedIPs[ip].expiresAt = <<>>
    /\ \E ip \in DOMAIN suspiciousIPs :
          now - suspiciousIPs[ip].lastAttempt = SUSPICION_IDLE_MINUTES


\* C32: whenever every write started by a mutation of the ban table (banIP,
\* unbanIP, lazy expiry, sweep) has ended and the file has been written, the
\* file holds the ban table of the memory, in whatever order the writes ended.
C32_PersistedEqualsMemory ==
    (writes = {} /\ storage # <<>>) => storage[1] = stringify(bannedIPs)


\* C33: when the load of the startup completes, the client banned by the
\* banIP call made just before it has the record that call gave it (its
\* reason and its expiry), and the client the unbanIP call made just before
\* it was given is not in the ban table.
C33_LoadKeepsBootMutations ==
    [][lastOp'.op = "loadBannedIPs" =>
         /\ lastOp.op = "banIP" =>
               /\ lastOp.ip \in DOMAIN bannedIPs'
               /\ bannedIPs'[lastOp.ip] = bannedIPs[lastOp.ip]
         /\ lastOp.op = "unbanIP" => lastOp.ip \notin DOMAIN bannedIPs'
      ]_vars


\* C34: between operations every suspicion record has at least 1 and at most
\* 19 attempts, a score below 300, and a threat history with one entry per
\* attempt, so the history of a client never holds more than 19 entries.
C34_SuspicionRecordBounded ==
    \A ip \in DOMAIN suspiciousIPs :
        /\ 1 <= suspiciousIPs[ip].attempts
        /\ suspiciousIPs[ip].attempts <= BAN_THRESHOLD_ATTEMPTS - 1
        /\ suspiciousIPs[ip].score < BAN_THRESHOLD_SCORE
        /\ BagCardinality(suspiciousIPs[ip].threats) = suspiciousIPs[ip].attempts

\* A client is one violation away from each threshold: 19 attempts, and a
\* score that a sixth SQL injection would take to 300 or more.
C34_Witness ==
    /\ Client \in DOMAIN suspiciousIPs
    /\ suspiciousIPs[Client].attempts = BAN_THRESHOLD_ATTEMPTS - 1
    /\ suspiciousIPs[Client].score + threatScore("sql_injection") >= BAN_THRESHOLD_SCORE
    /\ BagCardinality(suspiciousIPs[Client].threats) = BAN_THRESHOLD_ATTEMPTS - 1


\* The last request had no User-Agent header, or a blank one.
WithoutUserAgent == response.userAgent = <<>> \/ response.userAgent[1] \in {"", " "}

\* The path of the last request begins with /health or /api/security.
ExemptPath ==
    \/ Len(response.path) > 0 /\ response.path[1] \in {"health", "healthz"}
    \/ Len(response.path) > 1 /\ response.path[1] = "api" /\ response.path[2] = "security"

\* The recordSuspiciousActivity calls the user-agent check made for the last
\* request.
NoUserAgentCalls == {i \in 1..Len(response.calls) : response.calls[i].stage = "noUserAgent"}

\* C35, as stated: a request without a User-Agent header to a path that does
\* not begin with /health or /api/security is answered 400.
C35_NoUserAgentRejected ==
    (lastOp.op = "request" /\ WithoutUserAgent /\ ~ExemptPath) => response.status = 400

\* C35, amended: a request without a User-Agent header that the ban check
\* lets through, to a path that does not begin with /health or
\* /api/security, is answered 400 by the user-agent check, before threat
\* detection and the rate limiters run, with exactly one
\* recordSuspiciousActivity call of the check, of type no_user_agent, for its
\* client; on a path that begins with /health or /api/security the check
\* neither answers nor records.
C35_NoUserAgentRejectedIfNotBanned ==
    (lastOp.op = "request" /\ WithoutUserAgent) =>
        /\ (~ExemptPath /\ response.status # 403) =>
              /\ response.status = 400
              /\ response.stages[Len(response.stages)] = "noUserAgent"
              /\ \A k \in 1..Len(response.stages) :
                    response.stages[k] \notin {"suspiciousUserAgent", "attackDetection", "next"}
              /\ ~passedOn(response)
              /\ Cardinality(NoUserAgentCalls) = 1
              /\ \A i \in NoUserAgentCalls : response.calls[i].type = "no_user_agent"
              /\ \A i \in 1..Len(response.calls) :
                    response.calls[i].type = "no_user_agent" => i \in NoUserAgentCalls
              /\ \/ response.ip \in DOMAIN bannedIPs
                 \/ /\ response.ip \in DOMAIN suspiciousIPs
                    /\ BagIn([type |-> "no_user_agent", timestamp |-> now],
                             suspiciousIPs[response.ip].threats)
        /\ (~ExemptPath /\ response.status = 403) =>
              response.stages = <<"banCheck">> /\ response.calls = <<>>
        /\ ExemptPath =>
              /\ NoUserAgentCalls = {}
              /\ response.stages[Len(response.stages)] # "noUserAgent"

\* A request for the weather with a blank User-Agent header was answered 400
\* by the user-agent check, which recorded one no_user_agent violation.
C35_Witness ==
    /\ lastOp.op = "request"
    /\ response.userAgent = <<" ">>
    /\ response.path = WeatherPath
    /\ response.status = 400
    /\ Len(response.calls) = 1
    /\ response.calls[1].type = "no_user_agent"
    /\ response.ip \in DOMAIN suspiciousIPs


\* The categories in the order detectThreats evaluates them.
Taxonomy == <<"sql_injection", "xss", "path_traversal", "command_injection", "ldap_injection">>

TaxonomyRank(type) == CHOOSE k \in 1..Len(Taxonomy) : Taxonomy[k] = type

\* The patterns of a category that match a text, by their rank in the category.
MatchingOf(k, text) ==
    {j \in 1..Len(ATTACK_PATTERNS[k].patterns) :
        \E m \in RegexSpans : m[1] = ATTACK_PATTERNS[k].patterns[j] /\ m[2] = text}

\* C36: for a non-empty string detectThreats reports the categories in the
\* order sql_injection, xss, path_traversal, command_injection,
\* ldap_injection, one threat for each category with a matching pattern (with
\* the first matching pattern of the category) and none for the others, so
\* at most five threats of distinct types; for an empty or non-string input
\* it reports no threat (isMalicious, which is threats.length > 0, is false).
C36_OneThreatPerCategoryInOrder ==
    lastOp.op = "detectThreats" =>
        LET value == lastOp.arg[1]
            threats == lastOp.ret
        IN IF ~value.isString \/ value.text = ""
           THEN threats = <<>>
           ELSE /\ Len(threats) <= 5
                /\ \A i \in 1..Len(threats) : threats[i].type \in {Taxonomy[k] : k \in 1..5}
                /\ \A i, j \in 1..Len(threats) :
                      i < j => TaxonomyRank(threats[i].type) < TaxonomyRank(threats[j].type)
                /\ \A k \in 1..5 :
                      LET of == {i \in 1..Len(threats) : threats[i].type = Taxonomy[k]}
                      IN IF MatchingOf(k, value.text) = {} THEN of = {}
                         ELSE /\ Cardinality(of) = 1
                              /\ \A i \in of : \E j \in MatchingOf(k, value.text) :
                                    /\ threats[i].pattern = ATTACK_PATTERNS[k].patterns[j]
                                    /\ \A other \in MatchingOf(k, value.text) : j <= other
                /\ \A k \in 1..5 : ATTACK_PATTERNS[k].type = Taxonomy[k]

\* A call on a value with something of every category in it has returned five
\* threats, the SQL injection found by the second pattern of its category.
C36_Witness ==
    /\ lastOp.op = "detectThreats"
    /\ lastOp.arg[1] = Value(MixedInput)
    /\ Len(lastOp.ret) = 5
    /\ [i \in 1..5 |-> lastOp.ret[i].type] = Taxonomy
    /\ lastOp.ret[1].pattern = "sql2"


\* C37: after any sequence of recordResponseTime calls the list holds at most
\* 1000 samples, those of the most recent calls in the order of the calls, and
\* avgResponseTime is the mean of the samples of the list, rounded to the
\* nearest integer (a half rounds up).
C37_MeanOfTheRetainedSamples ==
    lastOp.op = "recordResponseTime" =>
        LET samples == metrics.requestTimes
            n == Len(samples)
            calls == lastOp.arg[2]
            dropped == calls - n
        IN /\ n <= 1000
           /\ n = (IF calls <= 1000 THEN calls ELSE 1000)
           /\ samples[n] = lastOp.arg[1]
           /\ \A i \in 1..n :
                 IF dropped + i > MaxEarlySamples THEN samples[i] = dropped + i
                 ELSE samples[i] \in EarlyTimes
           /\ 2 * n * metrics.avgResponseTime - n <= 2 * SumSeq(samples)
           /\ 2 * SumSeq(samples) < 2 * n * metrics.avgResponseTime + n

\* 1002 calls have been made: the samples of the first two are gone, the list
\* holds the 1000 of the calls 3 to 1002, whose mean 502.5 is rounded to 503.
C37_Witness ==
    /\ lastOp.op = "recordResponseTime"
    /\ lastOp.arg[2] = 1002
    /\ Len(metrics.requestTimes) = 1000
    /\ metrics.requestTimes[1] = 3
    /\ metrics.requestTimes[1000] = 1002
    /\ metrics.avgResponseTime = 503


\* The time, in half minutes, of the last request of an entry of pattern
\* analysis.
LastRequestOf(entry) == entry.requests[Len(entry.requests)].timestamp

AdaptiveTierHeld ==
    lastOp.op = "adaptiveRateLimiter" =>
        LET ip == lastOp.ip
            s0 == lastOp.arg[1].s
            w0 == lastOp.arg[2]
        IN IF ip \in DOMAIN s0 /\ (s0[ip].score >= 50 \/ s0[ip].attempts >= 5)
           THEN /\ response.stages = <<"strictRateLimiter">>
                /\ response.calls = <<>>
                /\ IF AdaptiveCounted(w0, "suspect", ip) < 20
                   THEN response.status = 0 /\ Tables = lastOp.arg[1]
                   ELSE /\ response.status = 429
                        /\ ip \in DOMAIN bannedIPs
                        /\ bannedIPs[ip].bannedAt = now
                        /\ bannedIPs[ip].expiresAt = <<now + 120>>
           ELSE /\ response.stages = <<"normalRateLimiter">>
                /\ IF AdaptiveCounted(w0, "normal", ip) < 100
                   THEN /\ response.status = 0
                        /\ response.calls = <<>>
                        /\ Tables = lastOp.arg[1]
                   ELSE /\ response.status = 429
                        /\ Len(response.calls) = 1
                        /\ response.calls[1].type = "rate_limit"

\* A request of a client that the normal limiter has answered 429 in its
\* window that is still running is not passed on.
DenialStands ==
    lastOp.op = "adaptiveRateLimiter" =>
        (AdaptiveCounted(lastOp.arg[2], "normal", lastOp.ip) > 100 => response.status = 429)

\* C39: the adaptive limiter holds a client whose suspicion record has score
\* >= 50 or attempts >= 5 to the strict limit (20 per 15 minutes, a ban of 120
\* minutes past it) and any other client to the normal limit (100 per 15
\* minutes), and a client that the normal limiter has answered 429 is not
\* passed on again before that 15-minute window has elapsed.
C39_AdaptiveNeverRelaxes == AdaptiveTierHeld /\ DenialStands

====
